---- MODULE Spec2Model ----
(***************************************************************************)
(* A state-machine model of the MCVI planner: the FSC store                *)
(* (AlphaVectorFSC), the belief tree (BeliefTreeNode / ActionNode) and the *)
(* planner driver (MCVIPlanner::Plan, SampleBeliefs, BackUp).              *)
(***************************************************************************)
EXTENDS Integers, Sequences, FiniteSets, TLC

VARIABLES
    fsc,        \* MCVIPlanner::_fsc : [nodes, edges, start]
    tree,       \* the belief tree of the running Plan call, an arena of OR-nodes
    pc,         \* position of the planner: "idle", "loop", "sample", "backup",
                \* "thrown"
    args,       \* the arguments of the running Plan call
    iter,       \* Plan's local i
    cur,        \* SampleBeliefs: the node of the current recursion level
    depth,      \* SampleBeliefs: the depth of the current recursion level
    traversal,  \* Plan's traversal_list
    plans,      \* number of Plan calls made on this planner
    work,       \* number of iterations started on this planner, over all calls
    last,       \* what the last step did (the last call and its result)
    calls,      \* number of calls made on the bare FSC store
    cfg         \* the planner's construction: simulator, initial belief, sampling cap

vars == <<fsc, tree, pc, args, iter, cur, depth, traversal, plans, work, last, calls, cfg>>

(***************************************************************************)
(* Bounds of the model.                                                    *)
(***************************************************************************)
MaxIter == 2        \* iterations made on one planner, over all Plan calls
MaxDepthSim == 2    \* largest max_depth_sim a Plan call is given
MaxPlans == 2       \* Plan calls made on one planner
MaxNodeSize == 6    \* capacity the FSC store is constructed with
MaxApiCalls == 3    \* calls made on a bare FSC store

States == {0, 1}
Actions == {0, 1}
Obs == {0, 1}
Unset == -1

EmptyMap == [x \in {} |-> 0]

Max(a, b) == IF a >= b THEN a ELSE b
Min(a, b) == IF a <= b THEN a ELSE b
Abs(x) == IF x < 0 THEN -x ELSE x

(***************************************************************************)
(* Exact arithmetic on the program's doubles: a value is a fraction n/d in *)
(* lowest terms with d > 0.                                                *)
(***************************************************************************)
RECURSIVE Gcd(_, _)
Gcd(a, b) == IF b = 0 THEN a ELSE Gcd(b, a % b)

Frac(n, d) ==
    LET s == IF d < 0 THEN -1 ELSE 1
        g == Gcd(Abs(n), Abs(d))
    IN  [n |-> (s * n) \div g, d |-> (s * d) \div g]

R(n) == [n |-> n, d |-> 1]
RAdd(x, y) == Frac(x.n * y.d + y.n * x.d, x.d * y.d)
RSub(x, y) == Frac(x.n * y.d - y.n * x.d, x.d * y.d)
RMul(x, y) == Frac(x.n * y.n, x.d * y.d)
RDiv(x, y) == Frac(x.n * y.d, x.d * y.n)
RLess(x, y) == x.n * y.d < y.n * x.d

RECURSIVE RPow(_, _)
RPow(x, k) == IF k = 0 THEN R(1) ELSE RMul(x, RPow(x, k - 1))

RECURSIVE RSum(_, _)
\* the sum of f over the keys in S
RSum(f, S) ==
    IF S = {} THEN R(0)
    ELSE LET k == CHOOSE k \in S : TRUE IN RAdd(f[k], RSum(f, S \ {k}))

(***************************************************************************)
(* The simulator (SimInterface), an external collaborator.  Three small    *)
(* deterministic POMDPs; cfg.sim names the one the planner was built on.   *)
(*   0: listen / open: action 0 observes the state and goes on, action 1   *)
(*      ends the episode;                                                  *)
(*   1: a chain: the action is added to the state, the observation is the  *)
(*      next state, the last state ends the episode;                       *)
(*   2: blind: one observation, the state never changes, nothing ends.     *)
(* Any other number (Flaky, below) answers as the blind one does.          *)
(***************************************************************************)
Sims == {0, 1, 2}

Step(sim, s, a) ==
    CASE sim = 0 ->
           IF a = 0
           THEN [sNext |-> s, obs |-> s, reward |-> -1, done |-> FALSE]
           ELSE [sNext |-> s, obs |-> 0, reward |-> IF s = 0 THEN 2 ELSE -2,
                 done |-> TRUE]
      [] sim = 1 ->
           LET n == IF s + a \in States THEN s + a ELSE s
           IN  [sNext |-> n, obs |-> n, reward |-> a, done |-> n = 1]
      [] OTHER ->
           [sNext |-> s, obs |-> 0, reward |-> 1 + a, done |-> FALSE]

\* SimInterface::GetDiscount
Gamma == Frac(1, 2)

(***************************************************************************)
(* The FSC store, AlphaVectorFSC: _nodes grows by AddNode, _edges is a     *)
(* vector of max_node_size edge-maps made empty at construction, and       *)
(* _start_node_index.  A node is its best action and its table of alpha    *)
(* values (state -> value).                                                *)
(***************************************************************************)
AlphaVectorNode(a) == [best_action |-> a, alpha |-> EmptyMap]

AlphaVectorFSC(max_node_size) ==
    [nodes |-> <<>>,
     edges |-> [i \in 0 .. max_node_size - 1 |-> EmptyMap],
     start |-> Unset]

NumNodes(f) == Len(f.nodes)
GetNode(f, nI) == f.nodes[nI + 1]
GetEdges(f, nI) == f.edges[nI]

GetEdgeValue(f, nI, observation) ==
    LET m == f.edges[nI]
    IN  IF observation \in DOMAIN m THEN m[observation] ELSE -1

\* returns the store and the index of the node added
AddNode(f, node) ==
    [fsc |-> [f EXCEPT !.nodes = Append(@, node)], idx |-> Len(f.nodes)]

UpdateEdge(f, nI, edges) == [f EXCEPT !.edges[nI] = edges]

SetStartNodeIndex(f, idx) == [f EXCEPT !.start = idx]

InsertNode(f, node, edges) ==
    LET r == AddNode(f, node)
    IN  [fsc |-> UpdateEdge(r.fsc, r.idx, edges), idx |-> r.idx]

RECURSIVE ScanNodes_StopShort(_, _, _, _)
\* ScanNodes with the loop ending one node early
ScanNodes_StopShort(f, action, edges, nI) ==
    IF nI >= NumNodes(f) - 1 THEN -1
    ELSE IF GetNode(f, nI).best_action # action
         THEN ScanNodes_StopShort(f, action, edges, nI + 1)
         ELSE IF GetEdges(f, nI) = edges THEN nI
              ELSE ScanNodes_StopShort(f, action, edges, nI + 1)

RECURSIVE ScanNodes(_, _, _, _)
\* the loop of FindOrInsertNode from index nI on: the first match, or -1
ScanNodes(f, action, edges, nI) ==
    IF nI >= NumNodes(f) THEN -1
    ELSE IF GetNode(f, nI).best_action # action
         THEN ScanNodes(f, action, edges, nI + 1)
         ELSE IF GetEdges(f, nI) = edges THEN nI
              ELSE ScanNodes(f, action, edges, nI + 1)

\* FindOrInsertNode matching on the best action alone
FindOrInsertNode_ActionOnly(f, node, edges) ==
    LET M == { i \in 0 .. NumNodes(f) - 1 :
                 GetNode(f, i).best_action = node.best_action }
    IN  IF M # {} THEN [fsc |-> f, idx |-> CHOOSE i \in M : \A j \in M : i <= j]
        ELSE InsertNode(f, node, edges)

FindOrInsertNode(f, node, edges) ==
    LET nI == ScanNodes(f, node.best_action, edges, 0)
    IN  IF nI # -1 THEN [fsc |-> f, idx |-> nI]
        ELSE InsertNode(f, node, edges)

(***************************************************************************)
(* AlphaVectorFSC::SimulateTrajectory: the loop from `step` on.  Returns   *)
(* the value, the number of simulator steps taken and the node indices     *)
(* given to GetNode, in order.                                             *)
(***************************************************************************)
RECURSIVE SimLoop_NoBreak(_, _, _, _, _, _, _, _)
\* the loop of SimulateTrajectory without the break on done
SimLoop_NoBreak(f, sim, max_depth, R_lower, step, nI_current, curr_state, acc) ==
    IF step >= max_depth THEN acc
    ELSE IF nI_current = -1
         THEN [V |-> RAdd(acc.V, RMul(RPow(Gamma, step),
                                      RMul(RPow(Gamma, max_depth), R_lower))),
               steps |-> acc.steps, visited |-> acc.visited]
         ELSE SimLoop_NoBreak(f, sim, max_depth, R_lower, step + 1,
                  GetEdgeValue(f, nI_current,
                      Step(sim, curr_state, GetNode(f, nI_current).best_action).obs),
                  Step(sim, curr_state, GetNode(f, nI_current).best_action).sNext,
                  [V |-> RAdd(acc.V, RMul(RPow(Gamma, step),
                          R(Step(sim, curr_state,
                                 GetNode(f, nI_current).best_action).reward))),
                   steps |-> acc.steps + 1,
                   visited |-> Append(acc.visited, nI_current)])

RECURSIVE SimLoop_OneMore(_, _, _, _, _, _, _, _)
\* SimLoop going on while step <= max_depth
SimLoop_OneMore(f, sim, max_depth, R_lower, step, nI_current, curr_state, acc) ==
    IF step > max_depth THEN acc
    ELSE IF nI_current = -1
         THEN LET reward == RMul(RPow(Gamma, max_depth), R_lower)
              IN  [V |-> RAdd(acc.V, RMul(RPow(Gamma, step), reward)),
                   steps |-> acc.steps, visited |-> acc.visited]
         ELSE LET action == GetNode(f, nI_current).best_action
                  r == Step(sim, curr_state, action)
                  nxt == GetEdgeValue(f, nI_current, r.obs)
                  acc2 == [V |-> RAdd(acc.V, RMul(RPow(Gamma, step), R(r.reward))),
                           steps |-> acc.steps + 1,
                           visited |-> Append(acc.visited, nI_current)]
              IN  IF r.done THEN acc2
                  ELSE SimLoop_OneMore(f, sim, max_depth, R_lower, step + 1, nxt,
                                       r.sNext, acc2)

RECURSIVE SimLoop(_, _, _, _, _, _, _, _)
SimLoop(f, sim, max_depth, R_lower, step, nI_current, curr_state, acc) ==
    IF step >= max_depth THEN acc
    ELSE IF nI_current = -1
         THEN LET reward == RMul(RPow(Gamma, max_depth), R_lower)
              IN  [V |-> RAdd(acc.V, RMul(RPow(Gamma, step), reward)),
                   steps |-> acc.steps, visited |-> acc.visited]
         ELSE LET action == GetNode(f, nI_current).best_action
                  r == Step(sim, curr_state, action)
                  nxt == GetEdgeValue(f, nI_current, r.obs)
                  acc2 == [V |-> RAdd(acc.V, RMul(RPow(Gamma, step), R(r.reward))),
                           steps |-> acc.steps + 1,
                           visited |-> Append(acc.visited, nI_current)]
              IN  IF r.done THEN acc2
                  ELSE SimLoop(f, sim, max_depth, R_lower, step + 1, nxt,
                               r.sNext, acc2)

SimulateTrajectory(f, nI, state, max_depth, R_lower, sim) ==
    SimLoop(f, sim, max_depth, R_lower, 0, nI, state,
            [V |-> R(0), steps |-> 0, visited |-> <<>>])

\* AlphaVectorNode::GetAlpha: the stored value, if any
HasAlpha(node, state) == state \in DOMAIN node.alpha
GetAlpha(node, state) == node.alpha[state]
\* AlphaVectorNode::SetAlpha
SetAlpha(node, state, V) ==
    [node EXCEPT !.alpha =
        [s \in DOMAIN node.alpha \cup {state} |->
            IF s = state THEN V ELSE node.alpha[s]]]

\* GetNodeAlpha without the look-up: every call simulates and stores
GetNodeAlpha_NoCache(f, state, nI, R_lower, max_depth_sim, sim) ==
    LET t == SimulateTrajectory(f, nI, state, max_depth_sim, R_lower, sim)
    IN  [fsc |-> [f EXCEPT !.nodes[nI + 1] = SetAlpha(@, state, t.V)],
         V |-> t.V, steps |-> t.steps, simulated |-> TRUE]

\* returns the store, the value, and the simulator steps the call took
GetNodeAlpha(f, state, nI, R_lower, max_depth_sim, sim) ==
    IF HasAlpha(GetNode(f, nI), state)
    THEN [fsc |-> f, V |-> GetAlpha(GetNode(f, nI), state), steps |-> 0,
          simulated |-> FALSE]
    ELSE LET t == SimulateTrajectory(f, nI, state, max_depth_sim, R_lower, sim)
         IN  [fsc |-> [f EXCEPT !.nodes[nI + 1] = SetAlpha(@, state, t.V)],
              V |-> t.V, steps |-> t.steps, simulated |-> TRUE]

(***************************************************************************)
(* Beliefs: a map from states to probabilities.                            *)
(***************************************************************************)
Support(belief) == DOMAIN belief

\* the initial beliefs a planner is built on
InitialBeliefs ==
    { [s \in {0, 1} |-> Frac(1, 2)],
      [s \in {0, 1} |-> IF s = 0 THEN Frac(2, 3) ELSE Frac(1, 3)] }

\* the initial beliefs Plan is run on: those above and one that makes the action
\* of two observations (listen, with simulator 0) the one of largest value
PlanBeliefs ==
    InitialBeliefs \cup { [s \in {0, 1} |-> IF s = 0 THEN Frac(1, 5) ELSE Frac(4, 5)] }

\* the orders in which a loop can meet the keys of an unordered_map
Orders(S) ==
    { q \in [1 .. Cardinality(S) -> S] :
        \A k, l \in 1 .. Cardinality(S) : q[k] = q[l] => k = l }

\* SamplePDFDestructive: a state of the pdf with its probability, taken out of
\* the pdf; -1 when the pdf is empty.  The state drawn is the first of `order`
\* (the random draws) the pdf still holds.
SamplePDFDestructive(pdf, order) ==
    IF DOMAIN pdf = {} THEN [state |-> -1, prob |-> R(0), pdf |-> pdf]
    ELSE LET k == CHOOSE k \in 1 .. Len(order) :
                     /\ order[k] \in DOMAIN pdf
                     /\ \A l \in 1 .. k - 1 : order[l] \notin DOMAIN pdf
         IN  [state |-> order[k], prob |-> pdf[order[k]],
              pdf |-> [s \in DOMAIN pdf \ {order[k]} |-> pdf[s]]]

RECURSIVE DrawLoop_OneMore(_, _, _, _, _)
\* DrawLoop going on while sample <= max_belief_samples
DrawLoop_OneMore(belief_pdf, max_belief_samples, sample, order, drawn) ==
    IF ~ (sample <= max_belief_samples) THEN drawn
    ELSE LET r == SamplePDFDestructive(belief_pdf, order)
         IN  IF r.state = -1 THEN drawn
             ELSE DrawLoop_OneMore(r.pdf, max_belief_samples, sample + 1, order,
                                   Append(drawn, [state |-> r.state, prob |-> r.prob]))

RECURSIVE DrawLoop(_, _, _, _, _)
\* the sampling loop of ActionNode::BeliefUpdate from `sample` on: the (state,
\* prob) pairs drawn, in order; Step is called once on each
DrawLoop(belief_pdf, max_belief_samples, sample, order, drawn) ==
    IF ~ (sample < max_belief_samples) THEN drawn
    ELSE LET r == SamplePDFDestructive(belief_pdf, order)
         IN  IF r.state = -1 THEN drawn
             ELSE DrawLoop(r.pdf, max_belief_samples, sample + 1, order,
                           Append(drawn, [state |-> r.state, prob |-> r.prob]))

\* the sets of states ActionNode::BeliefUpdate can draw from a belief
Draws(belief, max_belief_samples) ==
    { { DrawLoop(belief, max_belief_samples, 0, order, <<>>)[k].state :
          k \in 1 .. Len(DrawLoop(belief, max_belief_samples, 0, order, <<>>)) } :
        order \in Orders(Support(belief)) }

(***************************************************************************)
(* Bound estimators, external collaborators.  UpperBoundEvaluation gives   *)
(* the greedy action and an upper bound, FindRLower a lower bound; here    *)
(* the bounds of any belief are those of the rewards, -2 .. 2, discounted.  *)
(***************************************************************************)
UpperBoundEvaluation(belief) == [a_best |-> 0, U |-> R(4)]

FindRLower(belief) == R(-4)

(***************************************************************************)
(* The belief tree: an arena (sequence) of OR-nodes; node 1 is the root.   *)
(* A node's action_edges maps an expanded action to its ActionNode: the    *)
(* observation edges (observation -> node id) and observation weights.     *)
(***************************************************************************)
\* the BeliefTreeNode constructor
BeliefTreeNode(belief, best_action, upper_bound, lower_bound) ==
    [belief |-> belief, action_edges |-> EmptyMap, best_action |-> best_action,
     upper |-> upper_bound, lower |-> lower_bound, fsc_node_index |-> -1]

CreateBeliefTreeNode(belief) ==
    LET ub == UpperBoundEvaluation(belief)
    IN  BeliefTreeNode(belief, ub.a_best, ub.U, FindRLower(belief))

\* BeliefUpdate with the weights left as the probability drawn, not divided by
\* prob_sum
BeliefUpdate_NoProbSum(sim, belief, D, action) ==
    LET seen == { Step(sim, s, action).obs : s \in D }
        from(o, n) == { s \in D : Step(sim, s, action).obs = o
                                  /\ Step(sim, s, action).sNext = n }
        nexts(o) == { Step(sim, s, action).sNext :
                        s \in { t \in D : Step(sim, t, action).obs = o } }
        mass(o) == [n \in nexts(o) |-> RSum(belief, from(o, n))]
        w(o) == RSum(mass(o), nexts(o))
    IN  [weights |-> [o \in seen |-> w(o)],
         beliefs |-> [o \in seen |->
                        [n \in nexts(o) |-> RDiv(mass(o)[n], w(o))]]]

\* ActionNode::BeliefUpdate on the drawn states D: the observation weights and
\* the child belief of every observation seen
BeliefUpdate(sim, belief, D, action) ==
    LET prob_sum == RSum(belief, D)
        seen == { Step(sim, s, action).obs : s \in D }
        \* next_beliefs[o][sNext], a sum over the drawn states
        from(o, n) == { s \in D : Step(sim, s, action).obs = o
                                  /\ Step(sim, s, action).sNext = n }
        nexts(o) == { Step(sim, s, action).sNext :
                        s \in { t \in D : Step(sim, t, action).obs = o } }
        mass(o) == [n \in nexts(o) |-> RSum(belief, from(o, n))]
        w(o) == RDiv(RSum(mass(o), nexts(o)), prob_sum)
    IN  [weights |-> [o \in seen |-> w(o)],
         beliefs |-> [o \in seen |->
                        [n \in nexts(o) |-> RDiv(mass(o)[n], w(o))]]]

RECURSIVE SeqOfSet(_)
\* the elements of a set of numbers in increasing order
SeqOfSet(S) ==
    IF S = {} THEN <<>>
    ELSE LET m == CHOOSE x \in S : \A y \in S : x <= y
         IN  <<m>> \o SeqOfSet(S \ {m})

\* CalculateBounds with the two sums taken from the other bound of the children
CalculateBounds_Swapped(tr, edges, weights) ==
    [avgLower |-> RSum([o \in DOMAIN edges |->
                          RMul(tr[edges[o]].upper, weights[o])], DOMAIN edges),
     avgUpper |-> RSum([o \in DOMAIN edges |->
                          RMul(tr[edges[o]].lower, weights[o])], DOMAIN edges)]

\* ActionNode::CalculateBounds
CalculateBounds(tr, edges, weights) ==
    [avgLower |-> RSum([o \in DOMAIN edges |->
                          RMul(tr[edges[o]].lower, weights[o])], DOMAIN edges),
     avgUpper |-> RSum([o \in DOMAIN edges |->
                          RMul(tr[edges[o]].upper, weights[o])], DOMAIN edges)]

\* the end of ActionNode::BeliefUpdate and the ActionNode constructor: a child
\* OR-node for every observation of the update bu, appended to the arena in the
\* order os, and the ActionNode of `action` at node T with its bounds
ActionNode(tr, T, action, bu, os) ==
    LET edges == [o \in DOMAIN bu.beliefs |->
                    Len(tr) + (CHOOSE k \in 1 .. Len(os) : os[k] = o)]
        tr2 == tr \o [k \in 1 .. Len(os) |-> CreateBeliefTreeNode(bu.beliefs[os[k]])]
    IN  [tr2 EXCEPT ![T].action_edges =
            [a \in DOMAIN @ \cup {action} |->
                IF a = action
                THEN [observation_edges |-> edges, o_weights |-> bu.weights,
                      avgLower |-> CalculateBounds(tr2, edges, bu.weights).avgLower,
                      avgUpper |-> CalculateBounds(tr2, edges, bu.weights).avgUpper]
                ELSE @[a]]]

\* the ActionNode built from the update bu
ActionNodeOf(tr, T, action, bu) ==
    ActionNode(tr, T, action, bu, SeqOfSet(DOMAIN bu.beliefs))

\* BeliefTreeNode::AddChild: build the ActionNode of `action` at node T from the
\* drawn states D and insert it; _action_edges.insert keeps an ActionNode that
\* is already there, and the one built goes with its children
AddChild(tr, sim, T, action, D) ==
    IF action \in DOMAIN tr[T].action_edges THEN tr
    ELSE ActionNodeOf(tr, T, action, BeliefUpdate(sim, tr[T].belief, D, action))

\* BeliefTreeNode::GetChildren
GetChildren(tr, T, action) ==
    IF action \in DOMAIN tr[T].action_edges
    THEN tr[T].action_edges[action].observation_edges
    ELSE EmptyMap

\* BeliefTreeNode::GetOrAddChildren
GetOrAddChildren(tr, sim, T, action, D) ==
    IF action \in DOMAIN tr[T].action_edges THEN tr
    ELSE AddChild(tr, sim, T, action, D)

RECURSIVE ExpandFrom_Rebuild(_, _, _, _, _)
\* the first loop of BackUp building every action's ActionNode anew, in the
\* place of the one that is there
ExpandFrom_Rebuild(tr, sim, T, action, draws) ==
    IF action \notin Actions THEN tr
    ELSE ExpandFrom_Rebuild(
             ActionNodeOf(tr, T, action,
                          BeliefUpdate(sim, tr[T].belief, draws[action], action)),
             sim, T, action + 1, draws)

RECURSIVE ExpandFrom(_, _, _, _, _)
\* the first loop of BackUp, from `action` on; draws[a] are the states drawn for a
ExpandFrom(tr, sim, T, action, draws) ==
    IF action \notin Actions THEN tr
    ELSE ExpandFrom(GetOrAddChildren(tr, sim, T, action, draws[action]),
                    sim, T, action + 1, draws)

(***************************************************************************)
(* BeliefTreeNode::BackUpActions followed by UpdateBestAction.  For every  *)
(* expanded action the expected bounds of its ActionNode are computed anew *)
(* from the bounds its children have now, and the expected reward of the   *)
(* action is evaluated on the belief with the simulator; the value of an   *)
(* action is its expected reward plus the discounted expected bound.  The  *)
(* node's upper bound is the largest upper value, its best action and its  *)
(* lower bound are those of the largest lower value, the smallest action   *)
(* among equals.  The values of the FSC nodes are estimated at the states  *)
(* of the belief (each one a GetNodeAlpha call, which fills the node's     *)
(* table).  A node without an expanded action is left as it is.            *)
(***************************************************************************)
RECURSIVE FillAlpha(_, _, _, _, _, _)
\* GetNodeAlpha for every state of `states` (a sequence) and every node from nI on
FillAlpha(f, states, nI, R_lower, max_depth_sim, sim) ==
    IF states = <<>> THEN f
    ELSE IF nI >= NumNodes(f)
         THEN FillAlpha(f, Tail(states), 0, R_lower, max_depth_sim, sim)
         ELSE FillAlpha(GetNodeAlpha(f, Head(states), nI, R_lower,
                                     max_depth_sim, sim).fsc,
                        states, nI + 1, R_lower, max_depth_sim, sim)

\* BeliefTreeNode::SetBestAction and SetUpper
SetBestAction(node, action, lower_bound) ==
    [node EXCEPT !.best_action = action, !.lower = lower_bound]
SetUpper(node, upper_bound) == [node EXCEPT !.upper = upper_bound]

\* the expected reward of an action at a belief, E[r | b, a]
ExpectedReward(sim, belief, a) ==
    RSum([s \in Support(belief) |-> RMul(belief[s], R(Step(sim, s, a).reward))],
         Support(belief))

\* the ActionNode an with its expected bounds computed anew
RecalculateBounds(tr, an) ==
    [an EXCEPT
        !.avgLower = CalculateBounds(tr, an.observation_edges, an.o_weights).avgLower,
        !.avgUpper = CalculateBounds(tr, an.observation_edges, an.o_weights).avgUpper]

\* the value of an action: expected reward + discount * expected bound
QValue(reward, bound) == RAdd(reward, RMul(Gamma, bound))

\* the action of largest value, the smallest one among equals
ArgMax(Q) ==
    CHOOSE a \in DOMAIN Q :
        \A b \in DOMAIN Q : ~ RLess(Q[a], Q[b]) /\ (Q[b] = Q[a] => a <= b)

\* UpdateBestAction on the values Q_lower and Q_upper of the expanded actions
UpdateBestAction(node, Q_lower, Q_upper) ==
    SetUpper(SetBestAction(node, ArgMax(Q_lower), Q_lower[ArgMax(Q_lower)]),
             Q_upper[ArgMax(Q_upper)])

\* the node T with the expected bounds of its ActionNodes in edges, backed up
BackUpNodeActions(node, sim, edges) ==
    UpdateBestAction(
        [node EXCEPT !.action_edges = edges],
        [a \in DOMAIN edges |->
            QValue(ExpectedReward(sim, node.belief, a), edges[a].avgLower)],
        [a \in DOMAIN edges |->
            QValue(ExpectedReward(sim, node.belief, a), edges[a].avgUpper)])

BackUpActions(tr, f, T, R_lower, max_depth_sim, sim) ==
    IF DOMAIN tr[T].action_edges = {} THEN [tree |-> tr, fsc |-> f]
    ELSE [tree |-> [tr EXCEPT ![T] =
                      BackUpNodeActions(@, sim,
                          [a \in DOMAIN tr[T].action_edges |->
                              RecalculateBounds(tr, tr[T].action_edges[a])])],
          fsc |-> FillAlpha(f, SeqOfSet(Support(tr[T].belief)), 0, R_lower,
                            max_depth_sim, sim)]

(***************************************************************************)
(* MCVIPlanner::BackUp.  Returns the tree, the store, the edge-map built   *)
(* and the index FindOrInsertNode gave (Unset when it was not called).     *)
(***************************************************************************)
\* NodeEdges leaving out the children that have no FSC node
NodeEdges_SkipUnset(tr, T, best_act) ==
    LET kids == GetChildren(tr, T, best_act)
    IN  [o \in { p \in DOMAIN kids : tr[kids[p]].fsc_node_index # Unset } |->
            tr[kids[o]].fsc_node_index]

\* the edge-map BackUp builds at T for action best_act
NodeEdges(tr, T, best_act) ==
    LET kids == GetChildren(tr, T, best_act)
    IN  [o \in DOMAIN kids |-> tr[kids[o]].fsc_node_index]

\* the end of BackUp with the node attached to T rewritten in place
AttachNode_InPlace(tr, f, T, best_act, node_edges) ==
    IF DOMAIN node_edges = {}
    THEN [tree |-> tr, fsc |-> f, edges |-> node_edges, idx |-> Unset]
    ELSE IF tr[T].fsc_node_index # Unset
         THEN [tree |-> tr,
               fsc |-> UpdateEdge([f EXCEPT !.nodes[tr[T].fsc_node_index + 1].best_action
                                                = best_act],
                                  tr[T].fsc_node_index, node_edges),
               edges |-> node_edges, idx |-> tr[T].fsc_node_index]
         ELSE LET r == FindOrInsertNode(f, AlphaVectorNode(best_act), node_edges)
              IN  [tree |-> [tr EXCEPT ![T].fsc_node_index = r.idx],
                   fsc |-> r.fsc, edges |-> node_edges, idx |-> r.idx]

\* the end of BackUp without the return on an empty edge-map
AttachNode_NoTerminalReturn(tr, f, T, best_act, node_edges) ==
    LET r == FindOrInsertNode(f, AlphaVectorNode(best_act), node_edges)
    IN  [tree |-> [tr EXCEPT ![T].fsc_node_index = r.idx],
         fsc |-> r.fsc, edges |-> node_edges, idx |-> r.idx]

\* the end of BackUp: nothing on an empty edge-map, else FindOrInsertNode and
\* SetBestPolicyNode
AttachNode(tr, f, T, best_act, node_edges) ==
    IF DOMAIN node_edges = {}
    THEN [tree |-> tr, fsc |-> f, edges |-> node_edges, idx |-> Unset]
    ELSE LET r == FindOrInsertNode(f, AlphaVectorNode(best_act), node_edges)
         IN  [tree |-> [tr EXCEPT ![T].fsc_node_index = r.idx],
              fsc |-> r.fsc, edges |-> node_edges, idx |-> r.idx]

\* BackUp from GetBestActLBound on; b is what BackUpActions left
BackUpBest(b, T) ==
    AttachNode(b.tree, b.fsc, T, b.tree[T].best_action,
               NodeEdges(b.tree, T, b.tree[T].best_action))

BackUp(tr, f, T, R_lower, max_depth_sim, sim, draws) ==
    BackUpBest(BackUpActions(ExpandFrom(tr, sim, T, 0, draws), f, T, R_lower,
                             max_depth_sim, sim), T)

(***************************************************************************)
(* ActionNode::ChooseObservation: the observations the loop can end on.    *)
(* The loop keeps the first observation whose gap is strictly above the    *)
(* best so far, starting from minus infinity, in the map's iteration       *)
(* order, which is unspecified: any observation of maximal gap.            *)
(***************************************************************************)
Gap(tr, an, obs, target) ==
    RMul(RSub(RSub(tr[an.observation_edges[obs]].upper,
                   tr[an.observation_edges[obs]].lower), target),
         an.o_weights[obs])

\* BestObs comparing the gaps without the observation weights
BestObs_Unweighted(tr, an, target) ==
    { o \in DOMAIN an.observation_edges :
        \A p \in DOMAIN an.observation_edges :
            ~ RLess(RSub(tr[an.observation_edges[o]].upper,
                         tr[an.observation_edges[o]].lower),
                    RSub(tr[an.observation_edges[p]].upper,
                         tr[an.observation_edges[p]].lower)) }

BestObs(tr, an, target) ==
    { o \in DOMAIN an.observation_edges :
        \A p \in DOMAIN an.observation_edges :
            ~ RLess(Gap(tr, an, o, target), Gap(tr, an, p, target)) }

\* BeliefTreeNode::ChooseObservation: the tree (the best action's ActionNode is
\* added when missing) and the children it can return; none when it throws
\* "Failed to find best observation"
ChooseObservation(tr, sim, T, target, D) ==
    LET tr1 == IF tr[T].best_action \in DOMAIN tr[T].action_edges THEN tr
               ELSE AddChild(tr, sim, T, tr[T].best_action, D)
    IN  [tree |-> tr1,
         next |-> { tr1[T].action_edges[tr[T].best_action].observation_edges[o] :
                      o \in BestObs(tr1, tr1[T].action_edges[tr[T].best_action],
                                    target) }]

(***************************************************************************)
(* The planner, MCVIPlanner.                                               *)
(***************************************************************************)
MaxBeliefSamples == 2   \* largest max_belief_samples a planner is built with
Epsilons == {1, 9}   \* the epsilon a Plan call is given
\* the max_computation_ms a Plan call is given, as Plan is declared; the body of
\* Plan has no such parameter and reads no clock
Budgets == {0, 1000}

\* the capacity of the store a planner is built on: room, in every Plan call,
\* for the seed node and for a node of every BackUp call of every iteration (one
\* per level on the way down, one per entry of the traversal list), so that
\* InsertNode never writes past the end of _edges
PlanNodeSize == MaxPlans * (1 + 2 * MaxIter * MaxDepthSim)

Root == 1
\* args.fsc0 is the store the planner held when Plan was called
NoArgs == [max_depth_sim |-> 0, epsilon |-> 0, max_nb_iter |-> 0,
           max_computation_ms |-> 0,
           R_lower |-> R(0), target |-> R(0), fsc0 |-> AlphaVectorFSC(0)]
Call(op, node, edges, idx, n0) ==
    [op |-> op, node |-> node, edges |-> edges, idx |-> idx, n0 |-> n0]
NoCall == Call("none", 0, EmptyMap, Unset, 0)

Init ==
    /\ cfg \in [sim : Sims, b0 : PlanBeliefs,
                max_belief_samples : {0, MaxBeliefSamples}]
    /\ fsc = AlphaVectorFSC(PlanNodeSize)
    /\ tree = <<>>
    /\ pc = "idle"
    /\ args = NoArgs
    /\ iter = 0
    /\ cur = 0
    /\ depth = 0
    /\ traversal = <<>>
    /\ plans = 0
    /\ work = 0
    /\ calls = 0
    /\ last = NoCall

\* the states drawn for each action BackUp has still to expand at T
DrawsFor(tr, T) ==
    { d \in [Actions -> SUBSET States] :
        \A a \in Actions :
            IF a \in DOMAIN tr[T].action_edges THEN d[a] = {}
            ELSE d[a] \in Draws(tr[T].belief, cfg.max_belief_samples) }

\* Plan, up to the loop: R_lower, the root, the seed node
PlanStart ==
    /\ pc = "idle"
    /\ plans < MaxPlans
    /\ \E max_depth_sim \in 0 .. MaxDepthSim, epsilon \in Epsilons,
          max_nb_iter \in 0 .. MaxIter - work, RandomAction \in Actions,
          max_computation_ms \in Budgets :
        /\ args' = [max_depth_sim |-> max_depth_sim, epsilon |-> epsilon,
                    max_nb_iter |-> max_nb_iter,
                    max_computation_ms |-> max_computation_ms,
                    R_lower |-> FindRLower(cfg.b0), target |-> R(0),
                    fsc0 |-> fsc]
        /\ fsc' = AddNode(fsc, AlphaVectorNode(RandomAction)).fsc
        /\ last' = Call("Plan", 0, EmptyMap, Unset, NumNodes(fsc))
    /\ tree' = <<CreateBeliefTreeNode(cfg.b0)>>
    /\ iter' = 0
    /\ pc' = "loop"
    /\ plans' = plans + 1
    /\ UNCHANGED <<cur, depth, traversal, work, calls, cfg>>

\* Tr_root->GetUpper() - Tr_root->GetLower()
Precision(tr) == RSub(tr[Root].upper, tr[Root].lower)
RAbs(x) == [n |-> Abs(x.n), d |-> x.d]
\* the comparison of Converged the wrong way round
Converged_Inverted(tr, epsilon) == RLess(R(epsilon), RAbs(Precision(tr)))
Converged(tr, epsilon) == RLess(RAbs(Precision(tr)), R(epsilon))

\* the loop test failed: "reached the max iterations"
ReturnMaxIter ==
    /\ pc = "loop"
    /\ ~ (iter < args.max_nb_iter)
    /\ pc' = "idle"
    /\ last' = Call("ReturnMaxIter", 0, EmptyMap, Unset, NumNodes(fsc))
    /\ UNCHANGED <<fsc, tree, args, iter, cur, depth, traversal, plans, work, calls, cfg>>

\* the top of an iteration: "reached the target precision"
ReturnConverged ==
    /\ pc = "loop"
    /\ iter < args.max_nb_iter
    /\ Converged(tree, args.epsilon)
    /\ pc' = "idle"
    /\ last' = Call("ReturnConverged", 0, EmptyMap, Unset, NumNodes(fsc))
    /\ UNCHANGED <<fsc, tree, args, iter, cur, depth, traversal, plans, work, calls, cfg>>

\* the top of an iteration: SampleBeliefs is called on the root
IterStart ==
    /\ pc = "loop"
    /\ iter < args.max_nb_iter
    /\ ~ Converged(tree, args.epsilon)
    /\ args' = [args EXCEPT !.target = Precision(tree)]
    /\ traversal' = <<>>
    /\ cur' = Root
    /\ depth' = 0
    /\ pc' = "sample"
    /\ work' = work + 1
    /\ last' = Call("IterStart", 0, EmptyMap, Unset, NumNodes(fsc))
    /\ UNCHANGED <<fsc, tree, iter, plans, calls, cfg>>

\* SampleDepth with the node appended to the traversal list
SampleDepth_Appends ==
    /\ pc = "sample"
    /\ depth >= args.max_depth_sim
    /\ pc' = "backup"
    /\ traversal' = Append(traversal, cur)
    /\ last' = Call("SampleDepth", cur, EmptyMap, Unset, NumNodes(fsc))
    /\ UNCHANGED <<fsc, tree, args, iter, cur, depth, plans, work, calls, cfg>>

\* SampleBeliefs at depth >= max_depth: the recursion ends
SampleDepth ==
    /\ pc = "sample"
    /\ depth >= args.max_depth_sim
    /\ pc' = "backup"
    /\ last' = Call("SampleDepth", cur, EmptyMap, Unset, NumNodes(fsc))
    /\ UNCHANGED <<fsc, tree, args, iter, cur, depth, traversal, plans, work, calls, cfg>>

\* SampleBeliefs without its BackUp call
BackUpAgain_NoBackUp(b1, T, R_lower, max_depth_sim, sim, draws) ==
    [tree |-> b1.tree, fsc |-> b1.fsc, edges |-> EmptyMap, idx |-> Unset]

\* the BackUp call of SampleBeliefs, on what its BackUpActions call left
BackUpAgain(b1, T, R_lower, max_depth_sim, sim, draws) ==
    BackUp(b1.tree, b1.fsc, T, R_lower, max_depth_sim, sim, draws)

\* the what() of the exception ActionNode::ChooseObservation throws
NoObservation == "Failed to find best observation"

\* the catch of SampleBeliefs with its test the other way round
Catches_Inverted(what) == what # "Failed to find best observation"

\* the catch of SampleBeliefs: TRUE when it returns, FALSE when it throws the
\* exception again
Catches(what) == what = "Failed to find best observation"

\* one level of SampleBeliefs: back up the node, append it, choose the child.
\* A ChooseObservation that throws is caught by this level, which returns when
\* Catches holds and lets the exception leave Plan otherwise.
SampleBeliefs ==
    /\ pc = "sample"
    /\ depth < args.max_depth_sim
    /\ \E draws \in DrawsFor(tree, cur) :
        \E b2 \in { BackUpAgain(BackUpActions(tree, fsc, cur, args.R_lower,
                                              args.max_depth_sim, cfg.sim),
                                cur, args.R_lower, args.max_depth_sim, cfg.sim,
                                draws) } :
            /\ fsc' = b2.fsc
            /\ traversal' = Append(traversal, cur)
            /\ \E D \in IF b2.tree[cur].best_action
                               \notin DOMAIN b2.tree[cur].action_edges
                        THEN Draws(tree[cur].belief, cfg.max_belief_samples)
                        ELSE {{}} :
                \E co \in { ChooseObservation(b2.tree, cfg.sim, cur, args.target, D) } :
                    /\ tree' = co.tree
                    /\ IF co.next = {}
                       THEN /\ pc' = IF Catches(NoObservation) THEN "backup"
                                     ELSE "thrown"
                            /\ last' = IF Catches(NoObservation)
                                       THEN Call("SampleBeliefs", cur, b2.edges,
                                                 b2.idx, NumNodes(fsc))
                                       ELSE Call(NoObservation, cur, b2.edges,
                                                 b2.idx, NumNodes(fsc))
                            /\ UNCHANGED <<cur, depth>>
                       ELSE /\ last' = Call("SampleBeliefs", cur, b2.edges,
                                            b2.idx, NumNodes(fsc))
                            /\ \E next_node \in co.next :
                                  /\ cur' = next_node
                                  /\ depth' = depth + 1
                                  /\ pc' = "sample"
    /\ UNCHANGED <<args, iter, plans, work, calls, cfg>>

\* the reverse pass taking the nodes from the front of the traversal list
BackupPass_FromFront ==
    /\ pc = "backup"
    /\ traversal # <<>>
    /\ \E tr_node \in {traversal[1]} :
         \E draws \in DrawsFor(tree, tr_node) :
            \E b \in { BackUp(tree, fsc, tr_node, args.R_lower,
                              args.max_depth_sim, cfg.sim, draws) } :
                /\ fsc' = b.fsc
                /\ tree' = b.tree
                /\ last' = Call("BackUp", tr_node, b.edges, b.idx, NumNodes(fsc))
    /\ traversal' = Tail(traversal)
    /\ UNCHANGED <<pc, args, iter, cur, depth, plans, work, calls, cfg>>

\* the reverse pass: back up the last node of the traversal list and drop it
BackupPass ==
    /\ pc = "backup"
    /\ traversal # <<>>
    /\ \E tr_node \in {traversal[Len(traversal)]} :
         \E draws \in DrawsFor(tree, tr_node) :
            \E b \in { BackUp(tree, fsc, tr_node, args.R_lower,
                              args.max_depth_sim, cfg.sim, draws) } :
                /\ fsc' = b.fsc
                /\ tree' = b.tree
                /\ last' = Call("BackUp", tr_node, b.edges, b.idx, NumNodes(fsc))
    /\ traversal' = SubSeq(traversal, 1, Len(traversal) - 1)
    /\ UNCHANGED <<pc, args, iter, cur, depth, plans, work, calls, cfg>>

\* IterEnd with the start node set once, by the first iteration
IterEnd_StartOnce ==
    /\ pc = "backup"
    /\ traversal = <<>>
    /\ fsc' = IF iter = 0 THEN SetStartNodeIndex(fsc, tree[Root].fsc_node_index)
              ELSE fsc
    /\ iter' = iter + 1
    /\ pc' = "loop"
    /\ last' = Call("IterEnd", 0, EmptyMap, Unset, NumNodes(fsc))
    /\ UNCHANGED <<tree, args, cur, depth, traversal, plans, work, calls, cfg>>

\* IterEnd without ++i
IterEnd_NoIncrement ==
    /\ pc = "backup"
    /\ traversal = <<>>
    /\ fsc' = SetStartNodeIndex(fsc, tree[Root].fsc_node_index)
    /\ pc' = "loop"
    /\ last' = Call("IterEnd", 0, EmptyMap, Unset, NumNodes(fsc))
    /\ UNCHANGED <<tree, args, iter, cur, depth, traversal, plans, work, calls, cfg>>

\* the end of an iteration: the start node is the root's node
IterEnd ==
    /\ pc = "backup"
    /\ traversal = <<>>
    /\ fsc' = SetStartNodeIndex(fsc, tree[Root].fsc_node_index)
    /\ iter' = iter + 1
    /\ pc' = "loop"
    /\ last' = Call("IterEnd", 0, EmptyMap, Unset, NumNodes(fsc))
    /\ UNCHANGED <<tree, args, cur, depth, traversal, plans, work, calls, cfg>>

Next ==
    \/ PlanStart
    \/ ReturnMaxIter
    \/ ReturnConverged
    \/ IterStart
    \/ SampleDepth
    \/ SampleBeliefs
    \/ BackupPass
    \/ IterEnd

Spec == Init /\ [][Next]_vars

(***************************************************************************)
(* The planner on a simulator that can fail.  SimInterface::Step is an     *)
(* external collaborator and may throw a std::logic_error (CTP::Step, for  *)
(* one, goes through vector::at and unordered_map::at, which throw         *)
(* std::out_of_range).  Flaky is a fourth simulator: the blind one, except *)
(* that any Step call can throw.  Step is called by the expansion of an    *)
(* action (ActionNode::BeliefUpdate, once per state drawn) and by the      *)
(* rollouts of BackUpActions (SimulateTrajectory, under GetNodeAlpha).  A  *)
(* throw leaves what was done before it: the ActionNodes of the actions    *)
(* expanded earlier in the loop of BackUp (the one being built is not      *)
(* inserted), the values the earlier GetNodeAlpha calls stored (the call   *)
(* that throws stores nothing).  UpdateBestAction, called after            *)
(* BackUpActions, has not run, so the node keeps its bounds and its best   *)
(* action; of the expected bounds of its ActionNodes any number of the     *)
(* first ones can have been computed anew.  The calls of a level of        *)
(* SampleBeliefs are outside the try block of that level and inside that   *)
(* of every level above, whose catch decides with Catches; those of the    *)
(* root level and of the reverse pass are under no try block.              *)
(* pc = "thrown": an exception has left Plan, and last.op is its what().   *)
(***************************************************************************)
Flaky == 3
\* the what() of the exceptions a simulator throws: that of the std::out_of_range
\* of unordered_map::at; any text other than NoObservation has the same effect
StepErrors == {"unordered_map::at"}

InitFault ==
    /\ cfg \in [sim : Sims \cup {Flaky}, b0 : PlanBeliefs,
                max_belief_samples : {0, MaxBeliefSamples}]
    /\ fsc = AlphaVectorFSC(PlanNodeSize)
    /\ tree = <<>>
    /\ pc = "idle"
    /\ args = NoArgs
    /\ iter = 0
    /\ cur = 0
    /\ depth = 0
    /\ traversal = <<>>
    /\ plans = 0
    /\ work = 0
    /\ calls = 0
    /\ last = NoCall

RECURSIVE ExpandUpTo(_, _, _, _, _, _)
\* the first loop of BackUp from `action` on, left before the action `stop`
ExpandUpTo(tr, sim, T, action, stop, draws) ==
    IF action \notin Actions \/ action >= stop THEN tr
    ELSE ExpandUpTo(GetOrAddChildren(tr, sim, T, action, draws[action]),
                    sim, T, action + 1, stop, draws)

\* the trees the first loop of BackUp can be left with by a throw of Step: the
\* expansion of an action that T has not and for which a state is drawn throws
ExpandThrows(tr, sim, T, draws) ==
    { ExpandUpTo(tr, sim, T, 0, stop, draws) :
        stop \in { a \in Actions : /\ a \notin DOMAIN tr[T].action_edges
                                   /\ draws[a] # {} } }

RECURSIVE FillAlphaThrows(_, _, _, _, _, _)
\* the stores FillAlpha can be left with by a throw of Step: a GetNodeAlpha call
\* that simulates throws, after the calls before it have stored their values
FillAlphaThrows(f, states, nI, R_lower, max_depth_sim, sim) ==
    IF states = <<>> THEN {}
    ELSE IF nI >= NumNodes(f)
         THEN FillAlphaThrows(f, Tail(states), 0, R_lower, max_depth_sim, sim)
         ELSE (IF GetNodeAlpha(f, Head(states), nI, R_lower, max_depth_sim,
                               sim).steps > 0
               THEN {f} ELSE {})
              \cup FillAlphaThrows(GetNodeAlpha(f, Head(states), nI, R_lower,
                                                max_depth_sim, sim).fsc,
                                   states, nI + 1, R_lower, max_depth_sim, sim)

\* the tree with the expected bounds of the first k ActionNodes of T computed anew
RecalculateFirst(tr, T, k) ==
    [tr EXCEPT ![T].action_edges =
        [a \in DOMAIN @ |-> IF a < k THEN RecalculateBounds(tr, @[a]) ELSE @[a]]]

\* what BackUpActions can be left with by a throw of Step
BackUpActionsThrows(tr, f, T, R_lower, max_depth_sim, sim) ==
    IF DOMAIN tr[T].action_edges = {} THEN {}
    ELSE { [tree |-> RecalculateFirst(tr, T, k), fsc |-> g] :
             k \in 0 .. Cardinality(Actions),
             g \in FillAlphaThrows(f, SeqOfSet(Support(tr[T].belief)), 0,
                                   R_lower, max_depth_sim, sim) }

\* what BackUp can be left with by a throw of Step: in its first loop, or in
\* BackUpActions after the loop
BackUpThrows(tr, f, T, R_lower, max_depth_sim, sim, draws) ==
    { [tree |-> t, fsc |-> f] : t \in ExpandThrows(tr, sim, T, draws) }
    \cup BackUpActionsThrows(ExpandFrom(tr, sim, T, 0, draws), f, T, R_lower,
                             max_depth_sim, sim)

\* a level of SampleBeliefs left by an exception of Step, thrown in its
\* BackUpActions call or in its BackUp call
SampleBeliefs_StepThrows ==
    /\ pc = "sample"
    /\ depth < args.max_depth_sim
    /\ cfg.sim = Flaky
    /\ \E draws \in DrawsFor(tree, cur) :
        \E b1 \in { BackUpActions(tree, fsc, cur, args.R_lower,
                                  args.max_depth_sim, cfg.sim) } :
          \E x \in BackUpActionsThrows(tree, fsc, cur, args.R_lower,
                                       args.max_depth_sim, cfg.sim)
                   \cup BackUpThrows(b1.tree, b1.fsc, cur, args.R_lower,
                                     args.max_depth_sim, cfg.sim, draws) :
            /\ tree' = x.tree
            /\ fsc' = x.fsc
    /\ \E what \in StepErrors :
         /\ pc' = IF depth > 0 /\ Catches(what) THEN "backup" ELSE "thrown"
         /\ last' = Call(what, cur, EmptyMap, Unset, NumNodes(fsc))
    /\ UNCHANGED <<args, iter, cur, depth, traversal, plans, work, calls, cfg>>

\* the reverse pass left by an exception of Step thrown in its BackUp call; the
\* node is still on the traversal list
BackupPass_StepThrows ==
    /\ pc = "backup"
    /\ traversal # <<>>
    /\ cfg.sim = Flaky
    /\ \E tr_node \in {traversal[Len(traversal)]} :
         /\ \E draws \in DrawsFor(tree, tr_node) :
              \E x \in BackUpThrows(tree, fsc, tr_node, args.R_lower,
                                    args.max_depth_sim, cfg.sim, draws) :
                 /\ tree' = x.tree
                 /\ fsc' = x.fsc
         /\ \E what \in StepErrors :
              last' = Call(what, tr_node, EmptyMap, Unset, NumNodes(fsc))
    /\ pc' = "thrown"
    /\ UNCHANGED <<args, iter, cur, depth, traversal, plans, work, calls, cfg>>

NextFault ==
    \/ PlanStart
    \/ ReturnMaxIter
    \/ ReturnConverged
    \/ IterStart
    \/ SampleDepth
    \/ SampleBeliefs
    \/ SampleBeliefs_StepThrows
    \/ BackupPass
    \/ BackupPass_StepThrows
    \/ IterEnd

SpecFault == InitFault /\ [][NextFault]_vars

(***************************************************************************)
(* The FSC store on its own: its operations called one after another, on   *)
(* any arguments, from the empty store.                                    *)
(***************************************************************************)
\* the edge-maps the calls are given
\* the edge-maps a call is given on a store that holds n nodes afterwards:
\* every target is unset or a node of the store
EdgeInputs(n) ==
    UNION { [D -> -1 .. n - 1] : D \in SUBSET Obs }
RLowerInputs == {R(-4), R(1)}

ApiCall(op, action, edges, nI, state, idx, V, steps, simulated, bounds) ==
    [op |-> op, action |-> action, edges |-> edges, node |-> nI,
     state |-> state, idx |-> idx, V |-> V, steps |-> steps,
     simulated |-> simulated, bounds |-> bounds, n0 |-> NumNodes(fsc)]

InitFSC ==
    /\ cfg \in [sim : Sims, b0 : {EmptyMap}, max_belief_samples : {0}]
    /\ fsc = AlphaVectorFSC(MaxNodeSize)
    /\ tree = <<>>
    /\ pc = "api"
    /\ args = NoArgs
    /\ iter = 0
    /\ cur = 0
    /\ depth = 0
    /\ traversal = <<>>
    /\ plans = 0
    /\ work = 0
    /\ calls = 0
    /\ last = NoCall

ApiFrame ==
    /\ calls' = calls + 1
    /\ UNCHANGED <<tree, pc, args, iter, cur, depth, traversal, plans, work, cfg>>

ApiAddNode ==
    /\ calls < MaxApiCalls
    /\ \E a \in Actions :
         LET r == AddNode(fsc, AlphaVectorNode(a))
         IN  /\ fsc' = r.fsc
             /\ last' = ApiCall("AddNode", a, EmptyMap, Unset, 0, r.idx, R(0), 0, FALSE, <<>>)
    /\ ApiFrame

ApiUpdateEdge ==
    /\ calls < MaxApiCalls
    /\ \E nI \in 0 .. NumNodes(fsc) - 1, e \in EdgeInputs(NumNodes(fsc)) :
         /\ fsc' = UpdateEdge(fsc, nI, e)
         /\ last' = ApiCall("UpdateEdge", 0, e, nI, 0, Unset, R(0), 0, FALSE, <<>>)
    /\ ApiFrame

ApiFindOrInsertNode ==
    /\ calls < MaxApiCalls
    /\ \E a \in Actions, e \in EdgeInputs(NumNodes(fsc) + 1) :
         LET r == FindOrInsertNode(fsc, AlphaVectorNode(a), e)
         IN  /\ fsc' = r.fsc
             /\ last' = ApiCall("FindOrInsertNode", a, e, Unset, 0, r.idx, R(0), 0, FALSE, <<>>)
    /\ ApiFrame

ApiGetNodeAlpha ==
    /\ calls < MaxApiCalls
    /\ \E nI \in 0 .. NumNodes(fsc) - 1, s \in States, R_lower \in RLowerInputs,
          max_depth_sim \in 0 .. MaxDepthSim :
         LET r == GetNodeAlpha(fsc, s, nI, R_lower, max_depth_sim, cfg.sim)
         IN  /\ fsc' = r.fsc
             /\ last' = ApiCall("GetNodeAlpha", 0, EmptyMap, nI, s, Unset, r.V,
                                r.steps, r.simulated, <<R_lower, max_depth_sim>>)
    /\ ApiFrame

NextFSC ==
    \/ ApiAddNode
    \/ ApiUpdateEdge
    \/ ApiFindOrInsertNode
    \/ ApiGetNodeAlpha

SpecFSC == InitFSC /\ [][NextFSC]_vars

(***************************************************************************)
(* The belief tree on its own: the operations of BeliefTreeNode called one *)
(* after another on the nodes of a tree grown from one root.               *)
(***************************************************************************)
MaxTreeCalls == 3   \* calls made on a bare belief tree

\* the targets ChooseObservation is given
Targets == {R(0), R(8), R(9)}
\* the bounds SetBestAction and SetUpper are given
LowerInputs == {R(-4), R(0)}
UpperInputs == {R(0), R(4)}

TreeCall(op, T, action, target, next, had) ==
    [op |-> op, node |-> T, action |-> action, target |-> target,
     next |-> next, had |-> had, n0 |-> Len(tree)]

InitTree ==
    /\ cfg \in [sim : Sims, b0 : InitialBeliefs,
                max_belief_samples : 0 .. MaxBeliefSamples]
    /\ fsc = AlphaVectorFSC(0)
    /\ tree = <<CreateBeliefTreeNode(cfg.b0)>>
    /\ pc = "tree"
    /\ args = NoArgs
    /\ iter = 0
    /\ cur = 0
    /\ depth = 0
    /\ traversal = <<>>
    /\ plans = 0
    /\ work = 0
    /\ calls = 0
    /\ last = NoCall

TreeFrame ==
    /\ calls' = calls + 1
    /\ UNCHANGED <<fsc, pc, args, iter, cur, depth, traversal, plans, work, cfg>>

\* BeliefTreeNode::AddChild; _action_edges.insert keeps an ActionNode that is
\* already there
TreeAddChild ==
    /\ calls < MaxTreeCalls
    /\ \E T \in 1 .. Len(tree), a \in Actions :
         \E D \in Draws(tree[T].belief, cfg.max_belief_samples) :
            /\ tree' = IF a \in DOMAIN tree[T].action_edges THEN tree
                       ELSE AddChild(tree, cfg.sim, T, a, D)
            /\ last' = TreeCall("AddChild", T, a, R(0), Unset,
                                a \in DOMAIN tree[T].action_edges)
    /\ TreeFrame

\* BeliefTreeNode::SetBestAction
TreeSetBestAction ==
    /\ calls < MaxTreeCalls
    /\ \E T \in 1 .. Len(tree), a \in Actions, lower_bound \in LowerInputs :
         /\ tree' = [tree EXCEPT ![T] = SetBestAction(@, a, lower_bound)]
         /\ last' = TreeCall("SetBestAction", T, a, R(0), Unset, TRUE)
    /\ TreeFrame

\* BeliefTreeNode::SetUpper
TreeSetUpper ==
    /\ calls < MaxTreeCalls
    /\ \E T \in 1 .. Len(tree), upper_bound \in UpperInputs :
         /\ tree' = [tree EXCEPT ![T] = SetUpper(@, upper_bound)]
         /\ last' = TreeCall("SetUpper", T, 0, R(0), Unset, TRUE)
    /\ TreeFrame

\* BeliefTreeNode::ChooseObservation; next is the child returned, Unset when
\* the call throws
TreeChooseObservation ==
    /\ calls < MaxTreeCalls
    /\ \E T \in 1 .. Len(tree), target \in Targets :
         \E D \in IF tree[T].best_action \in DOMAIN tree[T].action_edges
                  THEN {{}}
                  ELSE Draws(tree[T].belief, cfg.max_belief_samples) :
            \E co \in { ChooseObservation(tree, cfg.sim, T, target, D) } :
                /\ tree' = co.tree
                /\ \E next \in IF co.next = {} THEN {Unset} ELSE co.next :
                     last' = TreeCall("ChooseObservation", T, tree[T].best_action,
                                      target, next,
                                      tree[T].best_action \in DOMAIN tree[T].action_edges)
    /\ TreeFrame

NextTree ==
    \/ TreeAddChild
    \/ TreeSetBestAction
    \/ TreeSetUpper
    \/ TreeChooseObservation

SpecTree == InitTree /\ [][NextTree]_vars

(***************************************************************************)
(* The execution of an FSC by the planner that holds it: SimulationWithFSC *)
(* and EvaluationWithSimulationFSC, on the store the planner was built     *)
(* with (any store the store's operations can build).                      *)
(***************************************************************************)
MaxSteps == 3         \* largest steps / max_steps a run is given
MaxSims == 2          \* largest num_sims an evaluation is given
MaxInitSamples == 2   \* largest init_belief_samples an evaluation is given

\* SimInterface::SampleStartState: the states a draw can give
StartStates == States

\* SampleOneState: a state of the belief
SampleOneState(belief) == Support(belief)

RECURSIVE GreedyLoop(_, _, _, _, _, _)
\* the two loops of GreedyBestAction from the state order[k] and the action a on;
\* acc is best_a, best_r and whether best_r is still minus infinity
GreedyLoop(sim, belief, order, k, a, acc) ==
    IF k > Len(order) THEN acc.best_a
    ELSE IF a \notin Actions THEN GreedyLoop(sim, belief, order, k + 1, 0, acc)
         ELSE GreedyLoop(sim, belief, order, k, a + 1,
                  IF \/ acc.minus_inf
                     \/ RLess(acc.best_r,
                              RMul(R(Step(sim, order[k], a).reward), belief[order[k]]))
                  THEN [best_a |-> a, best_r |-> R(Step(sim, order[k], a).reward),
                        minus_inf |-> FALSE]
                  ELSE acc)

\* GreedyBestAction, the belief's states met in the order `order`
GreedyBestAction(sim, belief, order) ==
    GreedyLoop(sim, belief, order, 1, 0,
               [best_a |-> -1, best_r |-> R(0), minus_inf |-> TRUE])

\* NextBelief: the states of the belief whose step under `action` gives the
\* observation, moved on and renormalised
NextBelief(sim, belief, action, observation) ==
    LET hit == { s \in Support(belief) : Step(sim, s, action).obs = observation }
        next_states == { Step(sim, s, action).sNext : s \in hit }
        total_prob == RSum(belief, hit)
    IN  [n \in next_states |->
            RDiv(RSum(belief, { s \in hit : Step(sim, s, action).sNext = n }),
                 total_prob)]

RECURSIVE StateCounts_OneMore(_, _, _, _)
\* the loop of SampleInitialBelief running while i <= N
StateCounts_OneMore(N, draws, i, state_counts) ==
    IF i > N THEN [counts |-> state_counts, drawn |-> i]
    ELSE StateCounts_OneMore(N, draws, i + 1,
            [s \in DOMAIN state_counts \cup {draws[i + 1]} |->
                (IF s \in DOMAIN state_counts THEN state_counts[s] ELSE 0)
                + (IF s = draws[i + 1] THEN 1 ELSE 0)])

RECURSIVE StateCounts(_, _, _, _)
\* the loop of SampleInitialBelief from i on; draws is what the calls of
\* SampleStartState return, one after another.  Returns state_counts and the
\* number of calls made
StateCounts(N, draws, i, state_counts) ==
    IF i >= N THEN [counts |-> state_counts, drawn |-> i]
    ELSE StateCounts(N, draws, i + 1,
            [s \in DOMAIN state_counts \cup {draws[i + 1]} |->
                (IF s \in DOMAIN state_counts THEN state_counts[s] ELSE 0)
                + (IF s = draws[i + 1] THEN 1 ELSE 0)])

\* SampleInitialBelief: the belief and the number of SampleStartState calls
SampleInitialBelief(N, draws) ==
    [belief |-> [s \in DOMAIN StateCounts(N, draws, 0, EmptyMap).counts |->
                    Frac(StateCounts(N, draws, 0, EmptyMap).counts[s], N)],
     drawn |-> StateCounts(N, draws, 0, EmptyMap).drawn]

\* FollowEdge with an unset pointer put back on the start node
FollowEdge_Restart(f, nI, obs) ==
    IF nI # -1 THEN GetEdgeValue(f, nI, obs) ELSE f.start

\* the pointer after a step: it follows the edge of the observation while it
\* is set
FollowEdge(f, nI, obs) ==
    IF nI # -1 THEN GetEdgeValue(f, nI, obs) ELSE nI

\* the arguments and the locals of a run: `sim` is the trajectory's number, `i`
\* the step's
Run(kind, steps, num_sims, sim, init_belief, state, belief, nI, i, sum_r) ==
    [kind |-> kind, steps |-> steps, num_sims |-> num_sims, sim |-> sim,
     init_belief |-> init_belief, state |-> state, belief |-> belief,
     nI |-> nI, i |-> i, sum_r |-> sum_r]

\* what a step of a run did: the pointer and the belief it started from, the
\* action it took and where that came from, what the simulator answered
ExecCall(op, nI, action, obs, done, greedy, belief, i) ==
    [op |-> op, node |-> nI, action |-> action, obs |-> obs, done |-> done,
     greedy |-> greedy, belief |-> belief, i |-> i]

InitExec ==
    /\ cfg \in [sim : Sims, b0 : InitialBeliefs, max_belief_samples : {0}]
    /\ fsc = AlphaVectorFSC(MaxNodeSize)
    /\ tree = <<>>
    /\ pc = "api"
    /\ args = NoArgs
    /\ iter = 0
    /\ cur = 0
    /\ depth = 0
    /\ traversal = <<>>
    /\ plans = 0
    /\ work = 0
    /\ calls = 0
    /\ last = NoCall

ExecFrame == UNCHANGED <<fsc, tree, iter, cur, depth, traversal, plans, work, calls, cfg>>

\* the store is built before the planner is: AddNode, UpdateEdge
ExecAddNode == pc = "api" /\ ApiAddNode
ExecUpdateEdge == pc = "api" /\ ApiUpdateEdge

\* AlphaVectorFSC::SetStartNodeIndex
ExecSetStartNodeIndex ==
    /\ pc = "api"
    /\ calls < MaxApiCalls
    /\ \E idx \in -1 .. NumNodes(fsc) - 1 :
         /\ fsc' = SetStartNodeIndex(fsc, idx)
         /\ last' = ApiCall("SetStartNodeIndex", 0, EmptyMap, Unset, 0, idx, R(0),
                            0, FALSE, <<>>)
    /\ ApiFrame

\* SimulationWithFSC, up to the loop
SimulationStart ==
    /\ pc = "api"
    /\ \E steps \in 0 .. MaxSteps, state \in SampleOneState(cfg.b0) :
         args' = Run("Simulation", steps, 1, 0, cfg.b0, state, cfg.b0,
                     fsc.start, 0, R(0))
    /\ pc' = "sim"
    /\ last' = ExecCall("SimulationWithFSC", fsc.start, Unset, Unset, FALSE,
                        FALSE, cfg.b0, 0)
    /\ ExecFrame

\* EvaluationWithSimulationFSC, up to the loop of its first trajectory
EvaluationStart ==
    /\ pc = "api"
    /\ \E max_steps \in 0 .. MaxSteps, num_sims \in 0 .. MaxSims,
          init_belief_samples \in 1 .. MaxInitSamples,
          draws \in [1 .. MaxInitSamples + 1 -> StartStates] :
         \E ib \in { SampleInitialBelief(init_belief_samples, draws) } :
            /\ last' = [op |-> "EvaluationWithSimulationFSC",
                        N |-> init_belief_samples, draws |-> draws,
                        belief |-> ib.belief, drawn |-> ib.drawn]
            /\ IF num_sims = 0
               THEN /\ args' = Run("Evaluation", max_steps, num_sims, 0, ib.belief,
                                   Unset, ib.belief, fsc.start, 0, R(0))
                    /\ pc' = "returned"
               ELSE /\ \E state \in SampleOneState(ib.belief) :
                         args' = Run("Evaluation", max_steps, num_sims, 0,
                                     ib.belief, state, ib.belief, fsc.start, 0, R(0))
                    /\ pc' = "sim"
    /\ ExecFrame

\* one round of the loop over the steps
SimStep ==
    /\ pc = "sim"
    /\ args.i < args.steps
    /\ \E order \in Orders(Support(args.belief)) :
         \E action \in { IF args.nI = -1
                         THEN GreedyBestAction(cfg.sim, args.belief, order)
                         ELSE GetNode(fsc, args.nI).best_action } :
            \E r \in { Step(cfg.sim, args.state, action) } :
                /\ last' = ExecCall("SimStep", args.nI, action, r.obs, r.done,
                                    args.nI = -1, args.belief, args.i)
                /\ IF r.done
                   THEN /\ args' = [args EXCEPT
                                      !.sum_r = RAdd(@, RMul(RPow(Gamma, args.i),
                                                             R(r.reward))),
                                      !.nI = FollowEdge(fsc, args.nI, r.obs)]
                        /\ pc' = "ended"
                   ELSE /\ args' = [args EXCEPT
                                      !.sum_r = RAdd(@, RMul(RPow(Gamma, args.i),
                                                             R(r.reward))),
                                      !.nI = FollowEdge(fsc, args.nI, r.obs),
                                      !.state = r.sNext,
                                      !.belief = NextBelief(cfg.sim, args.belief,
                                                            action, r.obs),
                                      !.i = @ + 1]
                        /\ pc' = "sim"
    /\ ExecFrame

\* the loop over the steps ends: the steps are used up
TrajectoryEnd ==
    /\ pc = "sim"
    /\ ~ (args.i < args.steps)
    /\ pc' = "ended"
    /\ last' = ExecCall("TrajectoryEnd", args.nI, Unset, Unset, FALSE, FALSE,
                        args.belief, args.i)
    /\ UNCHANGED args
    /\ ExecFrame

\* EvaluationWithSimulationFSC: the next trajectory
NextSim ==
    /\ pc = "ended"
    /\ args.kind = "Evaluation"
    /\ args.sim + 1 < args.num_sims
    /\ \E state \in SampleOneState(args.init_belief) :
         args' = [args EXCEPT !.sim = @ + 1, !.state = state,
                              !.belief = args.init_belief, !.nI = fsc.start,
                              !.i = 0, !.sum_r = R(0)]
    /\ pc' = "sim"
    /\ last' = ExecCall("NextSim", fsc.start, Unset, Unset, FALSE, FALSE,
                        args.init_belief, 0)
    /\ ExecFrame

\* the run returns
ExecReturn ==
    /\ pc = "ended"
    /\ args.kind = "Simulation" \/ ~ (args.sim + 1 < args.num_sims)
    /\ pc' = "returned"
    /\ last' = ExecCall("Return", args.nI, Unset, Unset, FALSE, FALSE,
                        args.belief, args.i)
    /\ UNCHANGED args
    /\ ExecFrame

NextExec ==
    \/ ExecAddNode
    \/ ExecUpdateEdge
    \/ ExecSetStartNodeIndex
    \/ SimulationStart
    \/ EvaluationStart
    \/ SimStep
    \/ TrajectoryEnd
    \/ NextSim
    \/ ExecReturn

SpecExec == InitExec /\ [][NextExec]_vars

(***************************************************************************)
(* The Canadian traveller simulator, class CTP (the later one, with the    *)
(* decide_goal_unreachable action), on a graph of four nodes: the edges    *)
(* 0-1 and 1-3 are always there, the edges 1-2 and 0-2 can be blocked, and *)
(* there is no edge 0-3 or 2-3.  A state is                                *)
(* the vector of its factors in the order of the map state_factor_sizes    *)
(* (the order of the names): e0_2, e1_2, loc.                              *)
(***************************************************************************)
MaxCtpSteps == 4   \* Step calls made on one simulator

CTPNodes == <<0, 1, 2, 3>>
CTPEdges ==
    (<<0, 1>> :> 1) @@ (<<1, 2>> :> 1) @@ (<<0, 2>> :> 3) @@ (<<1, 3>> :> 1)
CTPStochEdges == {<<0, 2>>, <<1, 2>>}
CTPGoal == 2
CTPOrigin == 0

\* CTP::edge2str
edge2str(e) == "e" \o ToString(e[1]) \o "_" \o ToString(e[2])

\* the keys of state_factor_sizes in the order of the map
SfNames == <<edge2str(<<0, 2>>), edge2str(<<1, 2>>), "loc">>

\* CTP::sfIdx: the position of a factor in a state (counted from 0)
sfIdx(state_factor) ==
    (CHOOSE k \in 1 .. Len(SfNames) : SfNames[k] = state_factor) - 1

\* state.at(i)
At(state, i) == state[i + 1]

\* CTP::names2state
names2state(names) == [k \in 1 .. Len(SfNames) |-> names[SfNames[k]]]

\* CTP::initActions: the nodes, then decide_goal_unreachable
CtpActions == 0 .. Len(CTPNodes)
IsDecide(action) == action = Len(CTPNodes)

\* CTP::initIdleReward, initBadReward
MaxEdge == CHOOSE w \in { CTPEdges[e] : e \in DOMAIN CTPEdges } :
              \A e \in DOMAIN CTPEdges : CTPEdges[e] <= w
IdleReward == -5 * MaxEdge
BadActionReward == -50 * MaxEdge

\* CTP::SampleStartState; status[e] is the status drawn for the edge e
SampleStartState(status) ==
    names2state([n \in { SfNames[k] : k \in 1 .. Len(SfNames) } |->
                    IF n = "loc" THEN Len(CTPNodes)
                    ELSE status[CHOOSE e \in CTPStochEdges : edge2str(e) = n]])

\* nodesAdjacent taking every stochastic edge for traversable
nodesAdjacent_IgnoreStatus(a, b, state) ==
    IF a = Len(CTPNodes) \/ b = Len(CTPNodes) THEN FALSE
    ELSE IF a = b THEN TRUE
    ELSE LET edge == IF a < b THEN <<a, b>> ELSE <<b, a>>
         IN  edge \in DOMAIN CTPEdges

\* CTP::nodesAdjacent
nodesAdjacent(a, b, state) ==
    IF a = Len(CTPNodes) \/ b = Len(CTPNodes) THEN FALSE
    ELSE IF a = b THEN TRUE
    ELSE LET edge == IF a < b THEN <<a, b>> ELSE <<b, a>>
         IN  IF edge \notin DOMAIN CTPEdges THEN FALSE
             ELSE IF edge \notin CTPStochEdges THEN TRUE
             ELSE At(state, sfIdx(edge2str(edge))) = 1

RECURSIVE Reached(_, _)
\* GraphPath::calculate: the nodes a path over the edges E leads to from S
Reached(S, E) ==
    LET N == S \cup { e[2] : e \in { f \in E : f[1] \in S } }
                \cup { e[1] : e \in { f \in E : f[2] \in S } }
    IN  IF N = S THEN S ELSE Reached(N, E)

\* CTP::goalUnreachable; cache is goal_reachable.  Returns the answer and the
\* cache
goalUnreachable(state, cache) ==
    LET origin_state == [state EXCEPT ![sfIdx("loc") + 1] = CTPOrigin]
        state_edges == { e \in DOMAIN CTPEdges :
                           \/ e \notin CTPStochEdges
                           \/ At(state, sfIdx(edge2str(e))) = 1 }
        reaches_goal == CTPGoal \in Reached({CTPOrigin}, state_edges)
    IN  IF origin_state \in DOMAIN cache
        THEN [ret |-> ~ cache[origin_state], cache |-> cache]
        ELSE [ret |-> ~ reaches_goal,
              cache |-> [s \in DOMAIN cache \cup {origin_state} |->
                            IF s = origin_state THEN reaches_goal ELSE cache[s]]]

\* applyActionToState without the absorbing goal
applyActionToState_NoAbsorb(state, action, cache) ==
    LET loc_idx == sfIdx("loc")
        loc == At(state, loc_idx)
    IN  IF loc = Len(CTPNodes)
        THEN [reward |-> 0, sNext |-> [state EXCEPT ![loc_idx + 1] = CTPOrigin],
              cache |-> cache]
        ELSE IF loc = action
             THEN [reward |-> IdleReward, sNext |-> state, cache |-> cache]
        ELSE IF IsDecide(action)
             THEN [reward |-> IF goalUnreachable(state, cache).ret THEN 0
                              ELSE BadActionReward,
                   sNext |-> state, cache |-> goalUnreachable(state, cache).cache]
        ELSE IF ~ nodesAdjacent(loc, action, state)
             THEN [reward |-> BadActionReward, sNext |-> state, cache |-> cache]
        ELSE [reward |-> IF action < loc THEN - CTPEdges[<<action, loc>>]
                         ELSE - CTPEdges[<<loc, action>>],
              sNext |-> [state EXCEPT ![loc_idx + 1] = action], cache |-> cache]

\* applyActionToState with the special initial state left for the goal
applyActionToState_StartAtGoal(state, action, cache) ==
    LET loc_idx == sfIdx("loc")
        loc == At(state, loc_idx)
    IN  IF loc = Len(CTPNodes)
        THEN [reward |-> 0, sNext |-> [state EXCEPT ![loc_idx + 1] = CTPGoal],
              cache |-> cache]
        ELSE IF loc = CTPGoal THEN [reward |-> 0, sNext |-> state, cache |-> cache]
        ELSE IF loc = action
             THEN [reward |-> IdleReward, sNext |-> state, cache |-> cache]
        ELSE IF IsDecide(action)
             THEN [reward |-> IF goalUnreachable(state, cache).ret THEN 0
                              ELSE BadActionReward,
                   sNext |-> state, cache |-> goalUnreachable(state, cache).cache]
        ELSE IF ~ nodesAdjacent(loc, action, state)
             THEN [reward |-> BadActionReward, sNext |-> state, cache |-> cache]
        ELSE [reward |-> IF action < loc THEN - CTPEdges[<<action, loc>>]
                         ELSE - CTPEdges[<<loc, action>>],
              sNext |-> [state EXCEPT ![loc_idx + 1] = action], cache |-> cache]

\* CTP::applyActionToState: the reward, sNext and the cache
applyActionToState(state, action, cache) ==
    LET loc_idx == sfIdx("loc")
        loc == At(state, loc_idx)
    IN  IF loc = Len(CTPNodes)
        THEN [reward |-> 0, sNext |-> [state EXCEPT ![loc_idx + 1] = CTPOrigin],
              cache |-> cache]
        ELSE IF loc = CTPGoal THEN [reward |-> 0, sNext |-> state, cache |-> cache]
        ELSE IF loc = action
             THEN [reward |-> IdleReward, sNext |-> state, cache |-> cache]
        ELSE IF IsDecide(action)
             THEN [reward |-> IF goalUnreachable(state, cache).ret THEN 0
                              ELSE BadActionReward,
                   sNext |-> state, cache |-> goalUnreachable(state, cache).cache]
        ELSE IF ~ nodesAdjacent(loc, action, state)
             THEN [reward |-> BadActionReward, sNext |-> state, cache |-> cache]
        ELSE [reward |-> IF action < loc THEN - CTPEdges[<<action, loc>>]
                         ELSE - CTPEdges[<<loc, action>>],
              sNext |-> [state EXCEPT ![loc_idx + 1] = action], cache |-> cache]

\* CTP::AdjacentStochEdges: the stochastic edges at `node`, by their other end
AdjacentStochEdges(node) ==
    LET adj == { e \in CTPStochEdges : e[1] = node \/ e[2] = node }
        other(e) == IF e[1] = node THEN e[2] ELSE e[1]
        ends == SeqOfSet({ other(e) : e \in adj })
    IN  [k \in 1 .. Len(ends) |-> CHOOSE e \in adj : other(e) = ends[k]]

\* CTP::initObsWidth
max_obs_width ==
    LET m == CHOOSE m \in { Len(AdjacentStochEdges(CTPNodes[k])) :
                               k \in 1 .. Len(CTPNodes) } :
                \A k \in 1 .. Len(CTPNodes) : Len(AdjacentStochEdges(CTPNodes[k])) <= m
    IN  2 ^ m

\* CTP::observeState
observeState(state) ==
    LET loc == IF At(state, sfIdx("loc")) = Len(CTPNodes) THEN CTPOrigin
               ELSE At(state, sfIdx("loc"))
        adj == AdjacentStochEdges(loc)
        bits == { n \in 0 .. Len(adj) - 1 :
                    At(state, sfIdx(edge2str(adj[n + 1]))) # 0 }
        RECURSIVE Sum(_)
        Sum(B) == IF B = {} THEN 0
                  ELSE LET n == CHOOSE n \in B : TRUE IN 2 ^ n + Sum(B \ {n})
    IN  Sum(bits) + loc * max_obs_width

\* checkFinished without the decide_goal_unreachable case
checkFinished_GoalOnly(sI, aI, sNext, cache) ==
    IF At(sI, sfIdx("loc")) = Len(CTPNodes) THEN [ret |-> FALSE, cache |-> cache]
    ELSE [ret |-> At(sNext, sfIdx("loc")) = CTPGoal, cache |-> cache]

\* CTP::checkFinished: the answer and the cache
checkFinished(sI, aI, sNext, cache) ==
    IF At(sI, sfIdx("loc")) = Len(CTPNodes) THEN [ret |-> FALSE, cache |-> cache]
    ELSE IF IsDecide(aI)
         THEN IF goalUnreachable(sI, cache).ret
              THEN [ret |-> TRUE, cache |-> goalUnreachable(sI, cache).cache]
              ELSE [ret |-> At(sNext, sfIdx("loc")) = CTPGoal,
                    cache |-> goalUnreachable(sI, cache).cache]
         ELSE [ret |-> At(sNext, sfIdx("loc")) = CTPGoal, cache |-> cache]

\* CTP::Step: sNext, the observation, the reward, done, and the cache
CtpStep(sI, aI, cache) ==
    LET a == applyActionToState(sI, aI, cache)
        f == checkFinished(sI, aI, a.sNext, a.cache)
    IN  [sNext |-> a.sNext, obs |-> observeState(a.sNext), reward |-> a.reward,
         done |-> f.ret, cache |-> f.cache]

InitCTP ==
    /\ cfg = [sim |-> 0, b0 |-> EmptyMap, max_belief_samples |-> 0]
    /\ fsc = AlphaVectorFSC(0)
    /\ tree = <<>>
    /\ pc = "ctp"
    /\ args = [state |-> <<>>, goal_reachable |-> EmptyMap]
    /\ iter = 0
    /\ cur = 0
    /\ depth = 0
    /\ traversal = <<>>
    /\ plans = 0
    /\ work = 0
    /\ calls = 0
    /\ last = NoCall

CtpFrame == UNCHANGED <<fsc, tree, pc, iter, cur, depth, traversal, plans, work, cfg>>

\* SampleStartState: a trajectory starts
CtpSampleStartState ==
    /\ args.state = <<>>
    /\ \E status \in [CTPStochEdges -> {0, 1}] :
         /\ args' = [args EXCEPT !.state = SampleStartState(status)]
         /\ last' = [op |-> "SampleStartState", state |-> SampleStartState(status)]
    /\ UNCHANGED calls
    /\ CtpFrame

\* Step on the state the trajectory is in
CtpStepCall ==
    /\ args.state # <<>>
    /\ calls < MaxCtpSteps
    /\ \E aI \in CtpActions :
         \E r \in { CtpStep(args.state, aI, args.goal_reachable) } :
            /\ args' = [state |-> r.sNext, goal_reachable |-> r.cache]
            /\ last' = [op |-> "Step", state |-> args.state, action |-> aI,
                        sNext |-> r.sNext, obs |-> r.obs, reward |-> r.reward,
                        done |-> r.done]
    /\ calls' = calls + 1
    /\ CtpFrame

NextCTP ==
    \/ CtpSampleStartState
    \/ CtpStepCall

SpecCTP == InitCTP /\ [][NextCTP]_vars

(***************************************************************************)
(* The numbering of factored states, class StateSpace.  The factors are a  *)
(* std::map, so they are held here as the sequence of its entries in the   *)
(* order of the map, the order of the names: "height" comes before         *)
(* "loc_name", "e1_2" before "loc".  A factor is [name, vals].             *)
(***************************************************************************)
MaxSSCalls == 2   \* calls made on one StateSpace

\* the factors of the example in the comments of StateSpace: loc_name =
\* [river, land] (0, 1 here), height = [0.0, 0.1, 0.2] (in tenths here)
DocFactors == << [name |-> "height", vals |-> <<0, 1, 2>>],
                 [name |-> "loc_name", vals |-> <<0, 1>>] >>

\* the factors of CTP::initStateSpace for the graph with one stochastic edge
LineFactors == << [name |-> "e1_2", vals |-> <<0, 1>>],
                  [name |-> "loc", vals |-> <<0, 1, 2>>] >>

\* three factors whose elements are not their own indices, one with one element
MixedFactors == << [name |-> "a", vals |-> <<2, 0>>],
                   [name |-> "b", vals |-> <<1>>],
                   [name |-> "c", vals |-> <<1, 2, 0>>] >>

FactorMaps == {DocFactors, LineFactors, MixedFactors}

\* IndexMap::getIndex
getIndex(v, element) ==
    (CHOOSE i \in 1 .. Len(v) :
        v[i] = element /\ \A j \in 1 .. i - 1 : v[j] # element) - 1

\* IndexMap::at
IndexAt(v, index) == v[index + 1]

\* the names of the factors
SfNamesOf(sf_map) == { sf_map[k].name : k \in 1 .. Len(sf_map) }

\* _sf_map.at(name)
SfAt(sf_map, name) ==
    sf_map[CHOOSE k \in 1 .. Len(sf_map) : sf_map[k].name = name].vals

RECURSIVE ProdSFVec(_, _, _)
\* the first loop of calculateProdSF, from the last factor to the first: the
\* product is put in front of the vector
ProdSFVec(sf_map, k, vec) ==
    IF k = 0 THEN vec
    ELSE ProdSFVec(sf_map, k - 1, <<vec[1] * Len(sf_map[k].vals)>> \o vec)

\* calculateProdSF with the factor i given _prodSF_vec[i]
calculateProdSF_FromZero(sf_map) ==
    LET vec == ProdSFVec(sf_map, Len(sf_map), <<1>>)
    IN  [n \in SfNamesOf(sf_map) |->
            vec[CHOOSE k \in 1 .. Len(sf_map) : sf_map[k].name = n]]

\* StateSpace::calculateProdSF: the factor i (from 0) gets _prodSF_vec[i + 1]
calculateProdSF(sf_map) ==
    LET vec == ProdSFVec(sf_map, Len(sf_map), <<1>>)
    IN  [n \in SfNamesOf(sf_map) |->
            vec[(CHOOSE k \in 1 .. Len(sf_map) : sf_map[k].name = n) + 1]]

RECURSIVE calcSizeFrom(_, _)
calcSizeFrom(sf_map, k) ==
    IF k > Len(sf_map) THEN 1
    ELSE Len(sf_map[k].vals) * calcSizeFrom(sf_map, k + 1)

\* StateSpace::calcSize
calcSize(sf_map) == calcSizeFrom(sf_map, 1)

\* StateSpace::getStateFactorIndex
getStateFactorIndex(sf_map, sI, sf_name) ==
    (sI \div calculateProdSF(sf_map)[sf_name]) % Len(SfAt(sf_map, sf_name))

\* StateSpace::getStateFactorElem
getStateFactorElem(sf_map, sI, sf_name) ==
    IndexAt(SfAt(sf_map, sf_name), getStateFactorIndex(sf_map, sI, sf_name))

RECURSIVE stateIndexFrom(_, _, _)
stateIndexFrom(sf_map, state, k) ==
    IF k > Len(sf_map) THEN 0
    ELSE getIndex(sf_map[k].vals, state[sf_map[k].name])
             * calculateProdSF(sf_map)[sf_map[k].name]
         + stateIndexFrom(sf_map, state, k + 1)

\* StateSpace::stateIndex
stateIndex(sf_map, state) == stateIndexFrom(sf_map, state, 1)

\* StateSpace::at
StateAt(sf_map, sI) ==
    [n \in SfNamesOf(sf_map) |-> getStateFactorElem(sf_map, sI, n)]

\* StateSpace::updateStateFactorIndex
updateStateFactorIndex(sf_map, sI, sf_name, new_sf_elem_idx) ==
    LET curr_idx == getStateFactorIndex(sf_map, sI, sf_name)
        delta == new_sf_elem_idx - curr_idx
    IN  sI + delta * calculateProdSF(sf_map)[sf_name]

\* StateSpace::updateStateFactor
updateStateFactor(sf_map, sI, sf_name, new_elem) ==
    updateStateFactorIndex(sf_map, sI, sf_name,
                           getIndex(SfAt(sf_map, sf_name), new_elem))

\* the states of a state space, as maps from the names to the elements
StatesOf(sf_map) ==
    { s \in [SfNamesOf(sf_map) -> 0 .. 2] :
        \A n \in SfNamesOf(sf_map) :
           \E i \in 1 .. Len(SfAt(sf_map, n)) : SfAt(sf_map, n)[i] = s[n] }

InitSS ==
    /\ cfg = [sim |-> 0, b0 |-> EmptyMap, max_belief_samples |-> 0]
    /\ fsc = AlphaVectorFSC(0)
    /\ tree = <<>>
    /\ pc = "ss"
    /\ \E sf_map \in FactorMaps : args = [factors |-> sf_map]
    /\ iter = 0
    /\ cur = 0
    /\ depth = 0
    /\ traversal = <<>>
    /\ plans = 0
    /\ work = 0
    /\ calls = 0
    /\ last = NoCall

SSFrame ==
    UNCHANGED <<fsc, tree, pc, args, iter, cur, depth, traversal, plans, work, cfg>>

SSGetStateFactorIndex ==
    /\ calls < MaxSSCalls
    /\ \E sI \in 0 .. calcSize(args.factors) - 1, n \in SfNamesOf(args.factors) :
         last' = [op |-> "getStateFactorIndex", sI |-> sI, sf_name |-> n,
                  ret |-> getStateFactorIndex(args.factors, sI, n)]
    /\ calls' = calls + 1
    /\ SSFrame

SSUpdateStateFactorIndex ==
    /\ calls < MaxSSCalls
    /\ \E sI \in 0 .. calcSize(args.factors) - 1, n \in SfNamesOf(args.factors) :
         \E idx \in 0 .. Len(SfAt(args.factors, n)) - 1 :
            last' = [op |-> "updateStateFactorIndex", sI |-> sI, sf_name |-> n,
                     new_sf_elem_idx |-> idx,
                     ret |-> updateStateFactorIndex(args.factors, sI, n, idx)]
    /\ calls' = calls + 1
    /\ SSFrame

SSStateIndex ==
    /\ calls < MaxSSCalls
    /\ \E s \in StatesOf(args.factors) :
         last' = [op |-> "stateIndex", state |-> s,
                  ret |-> stateIndex(args.factors, s)]
    /\ calls' = calls + 1
    /\ SSFrame

SSAt ==
    /\ calls < MaxSSCalls
    /\ \E sI \in 0 .. calcSize(args.factors) - 1 :
         last' = [op |-> "at", sI |-> sI, ret |-> StateAt(args.factors, sI)]
    /\ calls' = calls + 1
    /\ SSFrame

NextSS ==
    \/ SSGetStateFactorIndex
    \/ SSUpdateStateFactorIndex
    \/ SSStateIndex
    \/ SSAt

SpecSS == InitSS /\ [][NextSS]_vars

(***************************************************************************)
(* Properties of the planner, the store and the tree.                      *)
(***************************************************************************)
NodeIds(f) == 0 .. NumNodes(f) - 1
\* what identifies a node of the store: its best action and its edge-map
Key(f, i) == <<GetNode(f, i).best_action, f.edges[i]>>

\* C1: FSC dedup.  In every state reached by running Plan (a second Plan call on
\* the same planner included) no two indices of the store hold the same
\* (best_action, edges) pair.
C1_FscDedup ==
    \A i \in NodeIds(fsc), j \in NodeIds(fsc) : i # j => Key(fsc, i) # Key(fsc, j)

\* The nodes of the store that match (action, edges).
Matches(f, action, edges) ==
    { i \in NodeIds(f) : GetNode(f, i).best_action = action /\ f.edges[i] = edges }

\* C2: FindOrInsertNode is idempotent.  A FindOrInsertNode(n, e) call that follows
\* a FindOrInsertNode(n, e) call returns the index the first one returned and
\* leaves the store (the number of nodes, every edge-map) as it is.
C2_FindOrInsertIdempotent ==
    [][(/\ last.op = "FindOrInsertNode"
        /\ last'.op = "FindOrInsertNode"
        /\ last'.action = last.action
        /\ last'.edges = last.edges)
       => (/\ last'.idx = last.idx
           /\ NumNodes(fsc') = NumNodes(fsc)
           /\ fsc'.edges = fsc.edges
           /\ fsc' = fsc)]_vars

\* C2, witness: the second of two equal calls has returned, the first one having
\* inserted the node.
C2_Witness ==
    /\ last.op = "FindOrInsertNode"
    /\ calls >= 2
    /\ last.idx = NumNodes(fsc) - 1
    /\ last.n0 = NumNodes(fsc)
    /\ DOMAIN last.edges # {}

\* C3: FindOrInsertNode(node, edges) returns the smallest index that holds the
\* node's best action and the given edges when there is one, and the store is
\* unchanged; otherwise exactly one node is appended, the index returned is the
\* previous node count, and that index holds the best action and the edges.
C3_FindOrInsertResult ==
    [][last'.op = "FindOrInsertNode" =>
        LET M == Matches(fsc, last'.action, last'.edges)
            i == last'.idx
        IN  IF M # {}
            THEN /\ i \in M
                 /\ \A j \in M : i <= j
                 /\ fsc' = fsc
            ELSE /\ NumNodes(fsc') = NumNodes(fsc) + 1
                 /\ i = NumNodes(fsc)
                 /\ GetNode(fsc', i).best_action = last'.action
                 /\ fsc'.edges[i] = last'.edges
                 /\ \A j \in NodeIds(fsc) :
                        /\ GetNode(fsc', j) = GetNode(fsc, j)
                        /\ fsc'.edges[j] = fsc.edges[j]
                 /\ fsc'.start = fsc.start]_vars

\* C3, witness: a call has returned the first of two matching nodes.
C3_Witness ==
    /\ last.op = "FindOrInsertNode"
    /\ last.n0 = NumNodes(fsc)
    /\ Cardinality(Matches(fsc, last.action, last.edges)) >= 2
    /\ \E j \in Matches(fsc, last.action, last.edges) : last.idx < j

\* C3, witness of the other case: a call has appended a node whose action an
\* earlier node holds with other edges.
C3_WitnessInsert ==
    /\ last.op = "FindOrInsertNode"
    /\ last.n0 + 1 = NumNodes(fsc)
    /\ \E j \in NodeIds(fsc) :
         j # last.idx /\ GetNode(fsc, j).best_action = last.action

\* the alpha table of node i
Alpha(f, i) == GetNode(f, i).alpha

\* once stored, a node's best action, edges and alpha values stay
NodesKept(f, g) ==
    /\ NumNodes(g) >= NumNodes(f)
    /\ \A i \in NodeIds(f) :
         /\ GetNode(g, i).best_action = GetNode(f, i).best_action
         /\ g.edges[i] = f.edges[i]
         /\ DOMAIN Alpha(f, i) \subseteq DOMAIN Alpha(g, i)
         /\ \A s \in DOMAIN Alpha(f, i) : Alpha(g, i)[s] = Alpha(f, i)[s]

\* C4: FSC nodes are stable.  Across Plan the node count never decreases and a
\* node's best action and edges are the same in every later state; only its
\* table of alpha values grows (entries are added, none is changed).
C4_NodesStable == [][NodesKept(fsc, fsc')]_vars

\* C4, witness: a store of several nodes, one of them with edges and alpha values,
\* during a second iteration.
C4_Witness ==
    /\ pc = "backup"
    /\ iter = 1
    /\ NumNodes(fsc) >= 3
    /\ \E i \in NodeIds(fsc) : DOMAIN fsc.edges[i] # {} /\ DOMAIN Alpha(fsc, i) # {}

\* C5: rollout cache purity.  A GetNodeAlpha(s, nI, ...) call on a node that holds
\* a value for s returns that value, takes no simulator step and leaves the store
\* as it is; a stored value is never changed or dropped by any call on the store.
C5_CachePurity ==
    [][/\ \A i \in NodeIds(fsc) :
            /\ DOMAIN Alpha(fsc, i) \subseteq DOMAIN Alpha(fsc', i)
            /\ \A s \in DOMAIN Alpha(fsc, i) : Alpha(fsc', i)[s] = Alpha(fsc, i)[s]
       /\ (last'.op = "GetNodeAlpha" /\ last'.state \in DOMAIN Alpha(fsc, last'.node))
            => /\ last'.V = Alpha(fsc, last'.node)[last'.state]
               /\ last'.steps = 0
               /\ fsc' = fsc
       /\ (last'.op = "GetNodeAlpha" /\ last'.state \notin DOMAIN Alpha(fsc, last'.node))
            => /\ last'.state \in DOMAIN Alpha(fsc', last'.node)
               /\ Alpha(fsc', last'.node)[last'.state] = last'.V]_vars

\* C5, witness: a call has returned a stored value that a rollout with the
\* call's own R_lower and max_depth_sim would not give.
C5_Witness ==
    /\ last.op = "GetNodeAlpha"
    /\ ~ last.simulated
    /\ SimulateTrajectory(fsc, last.node, last.state, last.bounds[2],
                          last.bounds[1], cfg.sim).V # last.V

\* the Plan call has returned
Returned == pc = "idle" /\ last.op \in {"ReturnMaxIter", "ReturnConverged"}

\* C6: a Plan call with max_iter = 0 on a planner that holds an FSC returns that
\* FSC unchanged: the same number of nodes, best actions, edge-maps, start node.
C6_PlanZeroIterUnchanged ==
    (Returned /\ args.max_nb_iter = 0 /\ NumNodes(args.fsc0) > 0)
        => /\ NumNodes(fsc) = NumNodes(args.fsc0)
           /\ \A i \in NodeIds(fsc) :
                GetNode(fsc, i).best_action = GetNode(args.fsc0, i).best_action
           /\ fsc.edges = args.fsc0.edges
           /\ fsc.start = args.fsc0.start

\* what is left of the running Plan call: the iterations, then the steps of the
\* running iteration (the levels of SampleBeliefs, then the reverse pass)
IterSteps == 2 * MaxDepthSim + 4
Measure ==
    IF pc = "idle" THEN 0
    ELSE (args.max_nb_iter - iter) * IterSteps
         + (CASE pc = "loop" -> 2 * args.max_depth_sim + 3
              [] pc = "sample" -> 2 * args.max_depth_sim + 2 - depth
              [] pc = "backup" -> 1 + Len(traversal))

\* C7: Plan terminates after at most max_iter outer iterations.  Every step of a
\* running Plan call uses up some of what is left of it, which is never negative;
\* the iteration count never passes max_iter, and a traversal or a reverse pass
\* runs only in an iteration below max_iter.
C7_PlanTerminates ==
    /\ [](/\ Measure >= 0
          /\ (pc # "idle" => iter <= args.max_nb_iter)
          /\ (pc \in {"sample", "backup"} => iter < args.max_nb_iter)
          /\ (pc = "sample" => depth <= args.max_depth_sim)
          /\ Len(traversal) <= args.max_depth_sim)
    /\ [][pc # "idle" => Measure' < Measure]_vars

\* C7, witness: Plan has returned after max_iter = 2 iterations of full depth.
C7_Witness ==
    /\ Returned
    /\ last.op = "ReturnMaxIter"
    /\ iter = 2
    /\ args.max_nb_iter = 2
    /\ args.max_depth_sim = 2

\* C8: the convergence check precedes the work.  At the top of an iteration with
\* |root.upper - root.lower| < epsilon, Plan returns: the next step is the return,
\* with no SampleBeliefs or BackUp call and the store and the tree as they were.
C8_ConvergenceFirst ==
    [][(/\ pc = "loop"
        /\ iter < args.max_nb_iter
        /\ LET g == RSub(tree[Root].upper, tree[Root].lower)
           IN  Abs(g.n) < args.epsilon * g.d)
       => (/\ pc' = "idle"
           /\ last'.op = "ReturnConverged"
           /\ fsc' = fsc
           /\ tree' = tree
           /\ traversal' = traversal
           /\ iter' = iter)]_vars

\* C8, witness: Plan has returned on the check after an iteration that closed the
\* root's gap.
C8_Witness ==
    /\ Returned
    /\ last.op = "ReturnConverged"
    /\ iter = 1
    /\ args.max_nb_iter = 2
    /\ args.epsilon = 1

\* the last step was a BackUp call (on its own or within SampleBeliefs)
BackedUp == last.op \in {"BackUp", "SampleBeliefs"}

\* C9: after BackUp(T) has built a non-empty edge-map, T.fsc_node_index = i where
\* node(i).best_action is T's best action and edges(i) maps each observation
\* among T's children under that action to the child's fsc_node_index.
C9_BackUpAttaches ==
    (BackedUp /\ DOMAIN GetChildren(tree, last.node, tree[last.node].best_action) # {})
        => LET T == last.node
               i == tree[T].fsc_node_index
               kids == GetChildren(tree, T, tree[T].best_action)
           IN  /\ i \in NodeIds(fsc)
               /\ GetNode(fsc, i).best_action = tree[T].best_action
               /\ DOMAIN fsc.edges[i] = DOMAIN kids
               /\ \A o \in DOMAIN kids :
                      fsc.edges[i][o] = tree[kids[o]].fsc_node_index

\* C9, witness: the reverse pass has backed up the root, whose best action has two
\* children, one attached to a node and one not.
C9_Witness ==
    /\ last.op = "BackUp"
    /\ last.node = Root
    /\ LET kids == GetChildren(tree, Root, tree[Root].best_action)
       IN  /\ Cardinality(DOMAIN kids) = 2
           /\ \E o \in DOMAIN kids : tree[kids[o]].fsc_node_index # Unset
           /\ \E o \in DOMAIN kids : tree[kids[o]].fsc_node_index = Unset

\* C10: when the edge-map BackUp(T) builds is empty (a terminal belief), T's
\* fsc_node_index is unset (-1) after the call and no node was added to the store.
C10_TerminalBackUp ==
    (BackedUp /\ DOMAIN GetChildren(tree, last.node, tree[last.node].best_action) = {})
        => /\ tree[last.node].fsc_node_index = Unset
           /\ NumNodes(fsc) = last.n0
           /\ last.idx = Unset

\* C10, witness: the reverse pass has backed up a node all of whose actions are
\* expanded and none of which has a child.
C10_Witness ==
    /\ last.op = "BackUp"
    /\ DOMAIN tree[last.node].action_edges = Actions
    /\ \A a \in Actions : DOMAIN GetChildren(tree, last.node, a) = {}

\* C11: BackUp skips the children that have no FSC index: no edge-map given to
\* FindOrInsertNode holds an unset (-1) target, and every edge target in the
\* store is an index in [0, NumNodes).
C11_EdgeTargetsValid ==
    /\ BackedUp => \A o \in DOMAIN last.edges : last.edges[o] # Unset
    /\ \A i \in NodeIds(fsc) : \A o \in DOMAIN fsc.edges[i] :
           fsc.edges[i][o] \in NodeIds(fsc)

\* the action edges of every node of the tree: what expansion adds to
Expanded(tr) == [T \in 1 .. Len(tr) |-> DOMAIN tr[T].action_edges]

\* C12 as stated: within an iteration every BackUp call on a node of the
\* traversal path comes after all the expansions on the path: once a node has
\* been backed up (the traversal list holds it) no step of the iteration adds an
\* action node or a child belief node.
C12_BackUpAfterExpansions ==
    [][(pc \in {"sample", "backup"} /\ traversal # <<>>)
          => Expanded(tree') = Expanded(tree)]_vars

\* C12, amended: every BackUp call of the reverse pass comes after all the
\* expansions of the iteration: no step of the reverse pass adds an action node
\* or a child belief node.
C12_ReversePassAfterExpansions ==
    [][pc = "backup" => Expanded(tree') = Expanded(tree)]_vars

\* C12, witness: the reverse pass has backed up the deeper of two nodes of a path
\* whose actions the way down expanded.
C12_Witness ==
    /\ last.op = "BackUp"
    /\ Len(traversal) = 1
    /\ last.node # Root
    /\ DOMAIN tree[last.node].action_edges = Actions
    /\ \A a \in Actions : DOMAIN GetChildren(tree, last.node, a) # {}

\* T2 is a child belief node of T
IsChild(tr, T, T2) ==
    \E a \in DOMAIN tr[T].action_edges :
        \E o \in DOMAIN tr[T].action_edges[a].observation_edges :
            tr[T].action_edges[a].observation_edges[o] = T2

\* the reverse pass pops: the node backed up is the last of the list, which
\* loses it
PopsLast ==
    /\ last'.op = "BackUp"
    /\ last'.node = traversal[Len(traversal)]
    /\ traversal' = SubSeq(traversal, 1, Len(traversal) - 1)

\* C13 as stated: a node's fsc_node_index is updated only after all its
\* descendants on the traversal path have been updated in the iteration (no step
\* sets a node's index and goes on to a descendant that is still to be backed
\* up), and the reverse pass backs up the list from last to first, leaving it
\* empty.
C13_ReverseOrder ==
    /\ [][(last'.op \in {"SampleBeliefs", "BackUp"} /\ last'.idx # Unset)
             => ~ (pc' = "sample" /\ depth' < args.max_depth_sim)]_vars
    /\ [][(pc = "backup" /\ traversal # <<>>) => PopsLast]_vars
    /\ [](pc \in {"loop", "idle"} => traversal = <<>>)

\* C13, amended: the traversal list is a path of the tree, root first, without
\* repetition; the reverse pass backs it up from last appended to first, each
\* node once, so that in the reverse pass a node's fsc_node_index is updated
\* only after its descendants on the path; the list is empty when the pass ends.
C13_ReversePassOrder ==
    /\ [](/\ \A k \in 1 .. Len(traversal) - 1 :
                IsChild(tree, traversal[k], traversal[k + 1])
          /\ \A k, l \in 1 .. Len(traversal) : traversal[k] = traversal[l] => k = l
          /\ (traversal # <<>> => traversal[1] = Root)
          /\ (pc \in {"loop", "idle"} => traversal = <<>>))
    /\ [][(pc = "backup" /\ traversal # <<>>) => PopsLast]_vars

\* C13, witness: the reverse pass has backed up the root, the last of a list of
\* two, after it set the index of the root's child.
C13_Witness ==
    /\ last.op = "BackUp"
    /\ last.node = Root
    /\ traversal = <<>>
    /\ pc = "backup"
    /\ args.max_depth_sim = 2
    /\ \E a \in DOMAIN tree[Root].action_edges :
         \E o \in DOMAIN GetChildren(tree, Root, a) :
            tree[GetChildren(tree, Root, a)[o]].fsc_node_index # Unset

\* the weighted gap of observation o under action a at node T
WeightedGap(tr, T, a, o, target) ==
    RMul(tr[T].action_edges[a].o_weights[o],
         RSub(RSub(tr[tr[T].action_edges[a].observation_edges[o]].upper,
                   tr[tr[T].action_edges[a].observation_edges[o]].lower), target))

\* the step to come is a level of SampleBeliefs whose ChooseObservation call
\* throws: no exception of Step has ended the level before the call, BackUp has
\* expanded every action of the node and the ActionNode of the best action has
\* no child to return
ChooseObservationFails ==
    /\ pc = "sample"
    /\ depth < args.max_depth_sim
    /\ last'.op \notin StepErrors
    /\ DOMAIN tree'[cur].action_edges = Actions
    /\ DOMAIN GetChildren(tree', cur, tree'[cur].best_action) = {}

\* C14: a ChooseObservation failure ends one traversal normally, any other
\* logic_error leaves Plan.  When the ChooseObservation call of a level of
\* SampleBeliefs, at whatever depth, fails with "Failed to find best
\* observation", SampleBeliefs returns without error: the traversal list is the
\* one before the level with the node appended, the iteration is the same, and
\* the next step of Plan is the reverse pass backing up the last node of the
\* list.  An exception of another text is not caught: Plan is left by it, in
\* the iteration and with the traversal list of the throw, and takes no further
\* step; an exception that has left Plan is never the one of ChooseObservation.
C14_FailureEndsTraversal ==
    /\ [][ChooseObservationFails
            => (/\ pc' = "backup"
                /\ traversal' = Append(traversal, cur)
                /\ iter' = iter
                /\ last'.op = "SampleBeliefs")]_vars
    /\ [][(pc = "backup" /\ last.op = "SampleBeliefs")
            => (/\ last'.op = "BackUp"
                /\ last'.node = traversal[Len(traversal)]
                /\ iter' = iter)]_vars
    /\ [][last'.op \in StepErrors
            => (/\ pc' = "thrown"
                /\ traversal' = traversal
                /\ iter' = iter)]_vars
    /\ [][pc # "thrown"]_vars
    /\ [](pc = "thrown" => last.op \in StepErrors)

\* C14, witness: the ChooseObservation call of a level has just failed;
\* SampleBeliefs has returned with the node on the traversal list and Plan is at
\* the reverse pass.
C14_Witness ==
    /\ last.op = "SampleBeliefs"
    /\ pc = "backup"
    /\ traversal = <<last.node>>
    /\ args.max_depth_sim = 2
    /\ iter = 0
    /\ DOMAIN tree[last.node].action_edges = Actions
    /\ DOMAIN GetChildren(tree, last.node, tree[last.node].best_action) = {}

\* C14, witness: an exception of Step thrown one level below the root has gone
\* through the catch of the root level and has left Plan; the traversal list
\* holds the root.
C14_WitnessThrown ==
    /\ pc = "thrown"
    /\ last.op \in StepErrors
    /\ depth = 1
    /\ args.max_depth_sim = 2
    /\ last.node = cur
    /\ traversal = <<Root>>

\* C14, witness: an exception of Step thrown by a BackUp call of the reverse
\* pass has left Plan; the node is still on the traversal list.
C14_WitnessThrownBack ==
    /\ pc = "thrown"
    /\ last.op \in StepErrors
    /\ depth >= args.max_depth_sim
    /\ traversal # <<>>
    /\ last.node = traversal[Len(traversal)]

\* C15: ChooseObservation fails whenever the best weighted gap is not positive:
\* when SampleBeliefs has gone down to a child, the child's weighted gap under
\* the best action of its parent is strictly positive.
C15_FailsOnNonPositiveGap ==
    (pc = "sample" /\ last.op = "SampleBeliefs")
        => \E o \in DOMAIN GetChildren(tree, last.node, tree[last.node].best_action) :
              /\ GetChildren(tree, last.node, tree[last.node].best_action)[o] = cur
              /\ RLess(R(0), WeightedGap(tree, last.node,
                                         tree[last.node].best_action, o, args.target))

\* C16: ChooseObservation fails when the node has no AND-node for its best
\* action: it returns no child and leaves the node's action children alone.
C16_FailsWithoutActionNode ==
    [][(last'.op = "ChooseObservation" /\ ~ last'.had)
          => (last'.next = Unset /\ tree' = tree)]_vars

\* C17: when ChooseObservation returns a child, the child is an observation
\* child of the node's best action, and its observation has the largest weighted
\* gap w(o) * ((child.upper - child.lower) - target) among that action's
\* observations.
C17_ChoosesBestGap ==
    [][(last'.op = "ChooseObservation" /\ last'.next # Unset)
          => /\ last'.action = tree'[last'.node].best_action
             /\ last'.action \in DOMAIN tree'[last'.node].action_edges
             /\ \E o \in DOMAIN GetChildren(tree', last'.node, last'.action) :
                  /\ GetChildren(tree', last'.node, last'.action)[o] = last'.next
                  /\ \A p \in DOMAIN GetChildren(tree', last'.node, last'.action) :
                        ~ RLess(WeightedGap(tree', last'.node, last'.action, o,
                                            last'.target),
                                WeightedGap(tree', last'.node, last'.action, p,
                                            last'.target))]_vars

\* C17, witness: the call has returned one of two children of different gaps,
\* and the larger gap is not that of the likelier observation.
C17_Witness ==
    /\ last.op = "ChooseObservation"
    /\ last.next # Unset
    /\ \E o, p \in DOMAIN GetChildren(tree, last.node, last.action) :
         /\ RLess(WeightedGap(tree, last.node, last.action, p, last.target),
                  WeightedGap(tree, last.node, last.action, o, last.target))
         /\ RLess(tree[last.node].action_edges[last.action].o_weights[o],
                  tree[last.node].action_edges[last.action].o_weights[p])

\* C20: the observation weights of every AND-node built from a belief with
\* max_belief_samples >= 1 sum to 1.
C20_WeightsSumToOne ==
    \A T \in 1 .. Len(tree) : \A a \in DOMAIN tree[T].action_edges :
        cfg.max_belief_samples >= 1
            => RSum(tree[T].action_edges[a].o_weights,
                    DOMAIN tree[T].action_edges[a].o_weights) = R(1)

\* C20, witness: an AND-node with two observations built from one state drawn
\* of a belief of two, and below it one built from a child belief.
C20_Witness ==
    /\ cfg.max_belief_samples = 1
    /\ \E T \in 1 .. Len(tree) : \E a \in DOMAIN tree[T].action_edges :
         /\ Cardinality(Support(tree[T].belief)) = 2
         /\ DOMAIN tree[T].action_edges[a].o_weights # {}
    /\ \E T \in 2 .. Len(tree) : DOMAIN tree[T].action_edges # {}

RECURSIVE Walk(_, _, _, _, _)
\* the simulator steps of a rollout of at most n steps from node nI and state s:
\* it stops after a step that is done and when the pointer is unset
Walk(f, sim, nI, s, n) ==
    IF n = 0 \/ nI = Unset THEN <<>>
    ELSE IF Step(sim, s, GetNode(f, nI).best_action).done
         THEN << Step(sim, s, GetNode(f, nI).best_action) >>
         ELSE << Step(sim, s, GetNode(f, nI).best_action) >>
              \o Walk(f, sim,
                      GetEdgeValue(f, nI, Step(sim, s, GetNode(f, nI).best_action).obs),
                      Step(sim, s, GetNode(f, nI).best_action).sNext, n - 1)

RECURSIVE EndPointer(_, _, _, _, _)
\* the FSC pointer where that rollout stops
EndPointer(f, sim, nI, s, n) ==
    IF n = 0 \/ nI = Unset THEN nI
    ELSE IF Step(sim, s, GetNode(f, nI).best_action).done
         THEN GetEdgeValue(f, nI, Step(sim, s, GetNode(f, nI).best_action).obs)
         ELSE EndPointer(f, sim,
                 GetEdgeValue(f, nI, Step(sim, s, GetNode(f, nI).best_action).obs),
                 Step(sim, s, GetNode(f, nI).best_action).sNext, n - 1)

\* the sum of gamma^k * r_k over the steps w
Discounted(w) ==
    RSum([k \in 1 .. Len(w) |-> RMul(RPow(Gamma, k - 1), R(w[k].reward))],
         1 .. Len(w))

\* the rollout of the last GetNodeAlpha call, which simulated
LastWalk == Walk(fsc, cfg.sim, last.node, last.state, last.bounds[2])
LastEnd == EndPointer(fsc, cfg.sim, last.node, last.state, last.bounds[2])
Rolled == last.op = "GetNodeAlpha" /\ last.simulated

\* C18: the terminal correction of a rollout.  When the pointer becomes unset
\* after t < depth_max simulator steps, none of them done, the value is the sum
\* of gamma^k * r_k over the steps plus exactly gamma^depth_max * R_lower,
\* whatever t is.
C18_TerminalCorrection ==
    (/\ Rolled
     /\ LastEnd = Unset
     /\ Len(LastWalk) < last.bounds[2]
     /\ \A k \in 1 .. Len(LastWalk) : ~ LastWalk[k].done)
        => last.V = RAdd(Discounted(LastWalk),
                         RMul(RPow(Gamma, last.bounds[2]), last.bounds[1]))

\* C19: a rollout breaks on done.  When a step of the rollout is done, the value
\* is the sum of gamma^k * r_k up to and including that step, with no terminal
\* correction, and that step is the last simulator step taken.
C19_BreakOnDone ==
    (Rolled /\ LastWalk # <<>> /\ LastWalk[Len(LastWalk)].done)
        => /\ last.V = Discounted(LastWalk)
           /\ last.steps = Len(LastWalk)

\* C19, witness: a rollout of depth 2 has ended on a first step that is done,
\* with the pointer on a node that a second step would run.
C19_Witness ==
    /\ Rolled
    /\ last.bounds[2] = 2
    /\ last.bounds[1] # R(0)
    /\ Len(LastWalk) = 1
    /\ LastWalk[1].done
    /\ LastWalk[1].reward # 0
    /\ LastEnd # Unset

\* the probabilities of a belief added up
BeliefSum(belief) == RSum(belief, Support(belief))

\* C21: belief normalisation.  With max_belief_samples >= 1 the belief of every
\* OR-node of the tree sums to 1, the child beliefs BeliefUpdate creates from
\* fewer states than the parent's support holds included.
C21_BeliefsSumToOne ==
    cfg.max_belief_samples >= 1
        => \A T \in 1 .. Len(tree) : BeliefSum(tree[T].belief) = R(1)

\* C22: bound sandwich.  With estimators that keep their contracts (FindRLower
\* below and UpperBoundEvaluation above the value of any belief), every OR-node
\* of the belief tree has lower <= upper in every state: at its creation and
\* after every backup, where the two bounds are the largest values of the
\* expanded actions, computed from the expected reward and the expected bounds
\* of the children; the expected bounds of every AND-node are in the same order.
C22_BoundSandwich ==
    \A T \in 1 .. Len(tree) :
        /\ ~ RLess(tree[T].upper, tree[T].lower)
        /\ \A a \in DOMAIN tree[T].action_edges :
              ~ RLess(tree[T].action_edges[a].avgUpper,
                      tree[T].action_edges[a].avgLower)

\* C22, witness: the reverse pass has backed up the root from a child that a
\* backup had moved off the bounds of its creation: the bounds of the root are
\* not those of its creation, nor the ones a backup computes from children at
\* the bounds of their creation, and they are still apart.
C22_Witness ==
    /\ last.op = "BackUp"
    /\ last.node = Root
    /\ tree[Root].upper # UpperBoundEvaluation(tree[Root].belief).U
    /\ tree[Root].lower # FindRLower(tree[Root].belief)
    /\ RLess(tree[Root].lower, tree[Root].upper)
    /\ \E a \in DOMAIN tree[Root].action_edges :
         \E o \in DOMAIN GetChildren(tree, Root, a) :
            /\ tree[GetChildren(tree, Root, a)[o]].upper
                  # UpperBoundEvaluation(tree[GetChildren(tree, Root, a)[o]].belief).U
            /\ tree[GetChildren(tree, Root, a)[o]].lower
                  # FindRLower(tree[GetChildren(tree, Root, a)[o]].belief)
            /\ tree[Root].action_edges[a].avgUpper
                  # UpperBoundEvaluation(tree[Root].belief).U
    /\ \E T \in 1 .. Len(tree) :
         /\ tree[T].upper = UpperBoundEvaluation(tree[T].belief).U
         /\ tree[T].lower = FindRLower(tree[T].belief)

\* the actions GreedyBestAction can return for a belief
GreedyActions(sim, belief) ==
    { GreedyBestAction(sim, belief, order) : order \in Orders(Support(belief)) }

\* C23: FSC execution fallback.  In a trajectory of SimulationWithFSC and of
\* EvaluationWithSimulationFSC, a step made while the pointer is set takes the
\* node's best action and the pointer then follows edge(node, obs); a step made
\* while it is unset takes the action of the greedy fallback and leaves it
\* unset, so that it stays unset for the rest of the trajectory; a step is made
\* only below the given number of steps, and the trajectory ends with the first
\* step that is done, or else when the steps are used up.
C23_ExecutionFallback ==
    /\ [][last'.op = "SimStep" =>
            /\ pc = "sim"
            /\ args.i < args.steps
            /\ last'.obs = Step(cfg.sim, args.state, last'.action).obs
            /\ last'.done = Step(cfg.sim, args.state, last'.action).done
            /\ IF args.nI # Unset
               THEN /\ last'.action = GetNode(fsc, args.nI).best_action
                    /\ args'.nI = GetEdgeValue(fsc, args.nI, last'.obs)
               ELSE /\ last'.action \in GreedyActions(cfg.sim, args.belief)
                    /\ args'.nI = Unset
            /\ IF last'.done THEN pc' = "ended"
               ELSE /\ pc' = "sim"
                    /\ args'.i = args.i + 1
                    /\ args'.state = Step(cfg.sim, args.state, last'.action).sNext]_vars
    /\ [][(pc = "sim" /\ pc' = "sim" /\ args.nI = Unset) => args'.nI = Unset]_vars
    /\ [][pc = "sim" => IF args.i < args.steps THEN last'.op = "SimStep"
                        ELSE last'.op = "TrajectoryEnd" /\ pc' = "ended"]_vars
    /\ [](pc = "sim" => args.i <= args.steps)

\* C23, witness: the third step of a trajectory that started on a node of the
\* store has taken the greedy action, the pointer having become unset on the
\* way.
C23_Witness ==
    /\ last.op = "SimStep"
    /\ last.greedy
    /\ last.i = 2
    /\ fsc.start # Unset
    /\ args.nI = Unset

\* C23, witness of the end on done: a trajectory of an evaluation has ended on a
\* step that is done with steps left, the pointer on a node.
C23_WitnessDone ==
    /\ pc = "ended"
    /\ last.op = "SimStep"
    /\ last.done
    /\ args.kind = "Evaluation"
    /\ args.i + 1 < args.steps
    /\ last.node # Unset

\* C24: the greedy fallback maximises the expected one-step reward: the action a
\* step takes from GreedyBestAction(b) has the largest sum over the states s of
\* b(s) * r(s, a) among the actions.
C24_GreedyMaximises ==
    (last.op = "SimStep" /\ last.greedy)
        => \A a \in Actions :
              ~ RLess(ExpectedReward(cfg.sim, last.belief, last.action),
                      ExpectedReward(cfg.sim, last.belief, a))

\* C25: cancellation.  Plan checks the max_computation_ms budget at the top of
\* each iteration: once the elapsed time has reached the budget there, no
\* SampleBeliefs traversal and no BackUp is started and Plan returns.  The
\* elapsed time is never below 0, so that under a budget of 0 ms Plan is never
\* in a traversal or a reverse pass.
C25_BudgetStopsPlan ==
    pc \in {"sample", "backup"} => args.max_computation_ms > 0

\* C26: after every completed iteration of Plan (at the top of the loop after
\* it, and when Plan has returned after it) the start node index of the store
\* is the fsc_node_index the root of the tree has then.
C26_StartIsRootNode ==
    ((pc = "loop" \/ Returned) /\ iter >= 1)
        => fsc.start = tree[Root].fsc_node_index

\* C26, witness: after the second iteration the start node is the root's node,
\* another one than after the first.
C26_Witness ==
    /\ pc = "loop"
    /\ iter = 2
    /\ last.op = "IterEnd"
    /\ fsc.start = tree[Root].fsc_node_index
    /\ fsc.start >= 2

\* C27: AddNode appends and returns the number of nodes before the call, and
\* GetEdgeValue of the fresh index is unset (-1) for every observation until
\* UpdateEdge is called on it (here: the seed node Plan adds); in every state
\* GetEdgeValue(i, o) is -1 exactly when the edge-map of i has no entry for o.
C27_StoreIndexing ==
    /\ [][last'.op = "Plan" =>
            /\ NumNodes(fsc') = NumNodes(fsc) + 1
            /\ AddNode(fsc, GetNode(fsc', NumNodes(fsc))).idx = NumNodes(fsc)
            /\ \A o \in Obs : GetEdgeValue(fsc', NumNodes(fsc), o) = Unset]_vars
    /\ [](\A i \in NodeIds(fsc) : \A o \in Obs :
             (GetEdgeValue(fsc, i, o) = Unset) <=> (o \notin DOMAIN fsc.edges[i]))

\* C28: SampleInitialBelief(N, sim) with N >= 1 calls SampleStartState exactly N
\* times and returns a belief whose keys are exactly the states drawn, each with
\* the probability count / N > 0, so that the probabilities sum to 1.
C28_SampleInitialBelief ==
    last.op = "EvaluationWithSimulationFSC" =>
        /\ last.N >= 1
        /\ last.drawn = last.N
        /\ DOMAIN last.belief = { last.draws[k] : k \in 1 .. last.N }
        /\ \A s \in DOMAIN last.belief :
              /\ last.belief[s].n * last.N
                    = Cardinality({ k \in 1 .. last.N : last.draws[k] = s })
                      * last.belief[s].d
              /\ last.belief[s].n > 0
              /\ last.belief[s].d > 0
        /\ BeliefSum(last.belief) = R(1)

\* C28, witness: two draws of the same state, the next draw of the simulator
\* being another state: a belief of one state, of probability 1.
C28_Witness ==
    /\ last.op = "EvaluationWithSimulationFSC"
    /\ last.N = 2
    /\ last.draws[1] = last.draws[2]
    /\ last.draws[3] # last.draws[1]
    /\ DOMAIN last.belief = {last.draws[1]}

\* C28, witness: two draws of two states: a belief of two states.
C28_WitnessTwo ==
    /\ last.op = "EvaluationWithSimulationFSC"
    /\ last.N = 2
    /\ Cardinality(DOMAIN last.belief) = 2


\* the edge between a and b is there and, in `state`, not blocked
OpenEdge(state, a, b) ==
    \E e \in DOMAIN CTPEdges :
       /\ e = <<a, b>> \/ e = <<b, a>>
       /\ e \in CTPStochEdges => At(state, sfIdx(edge2str(e))) = 1

\* no walk over open edges leads from the origin to the goal
GoalCutOff(state) ==
    ~ \E n \in 1 .. Len(CTPNodes) :
         \E p \in [1 .. n -> 0 .. Len(CTPNodes) - 1] :
            /\ p[1] = CTPOrigin
            /\ p[n] = CTPGoal
            /\ \A k \in 1 .. n - 1 : OpenEdge(state, p[k], p[k + 1])

\* C29 as stated: in every state where the goal cannot be reached from the
\* origin over unblocked edges, the sampled start state included,
\* Step(state, decide_goal_unreachable) returns done = true, the reward 0 and
\* the input state as the next state.
C29_DecideEndsEpisode ==
    (last.op = "Step" /\ IsDecide(last.action) /\ GoalCutOff(last.state))
        => (last.done /\ last.reward = 0 /\ last.sNext = last.state)

\* C29 amended: the same in every such state whose location is a node of the
\* graph; in the sampled start state (the location is the special initial
\* one) the step is not done, has the reward 0 and moves to the origin.
C29_DecideEndsEpisodeAtNode ==
    (last.op = "Step" /\ IsDecide(last.action) /\ GoalCutOff(last.state))
        => IF At(last.state, sfIdx("loc")) # Len(CTPNodes)
           THEN last.done /\ last.reward = 0 /\ last.sNext = last.state
           ELSE /\ ~ last.done
                /\ last.reward = 0
                /\ last.sNext = [last.state EXCEPT ![sfIdx("loc") + 1] = CTPOrigin]

C29_Witness ==
    /\ last.op = "Step" /\ IsDecide(last.action) /\ GoalCutOff(last.state)
    /\ At(last.state, sfIdx("loc")) \in {CTPOrigin, 1}
    /\ last.done

C29_WitnessStart ==
    /\ last.op = "Step" /\ IsDecide(last.action) /\ GoalCutOff(last.state)
    /\ At(last.state, sfIdx("loc")) = Len(CTPNodes)
    /\ ~ last.done


\* C30: with the factors loc_name = [river, land] and height = [0.0, 0.1,
\* 0.2], getStateFactorIndex(3, "loc_name") returns 1,
\* getStateFactorIndex(3, "height") returns 0 and
\* updateStateFactorIndex(3, "height", 2) returns 5.
C30_DocumentedEncoding ==
    (args.factors = DocFactors /\ last.op # "none" /\ last.op # "stateIndex"
       /\ last.sI = 3)
        => /\ (last.op = "getStateFactorIndex" /\ last.sf_name = "loc_name")
                 => last.ret = 1
           /\ (last.op = "getStateFactorIndex" /\ last.sf_name = "height")
                 => last.ret = 0
           /\ (last.op = "updateStateFactorIndex" /\ last.sf_name = "height"
                 /\ last.new_sf_elem_idx = 2) => last.ret = 5


\* the node the BackUp call of the step to come is made on, when there is one
BackUpDue ==
    \/ pc = "sample" /\ depth < args.max_depth_sim
    \/ pc = "backup" /\ traversal # <<>>
BackUpNode == IF pc = "sample" THEN cur ELSE traversal[Len(traversal)]

\* the nodes an action of node T leads to
ChildrenOf(tr, T, a) ==
    { GetChildren(tr, T, a)[o] : o \in DOMAIN GetChildren(tr, T, a) }

\* C31: after a BackUp(T) call T has an AND-node for every action.  An AND-node
\* T had before the call is kept, not built again: it leads to the same child
\* nodes under the same observations with the same weights, and every node the
\* tree held apart from T, the children of T among them, is as it was; the
\* nodes the call has added are the children of the actions T had not expanded.
\* (The expected bounds of a kept AND-node are computed anew by the call.)
C31_BackUpExpandsAll ==
    [][BackUpDue =>
          /\ DOMAIN tree'[BackUpNode].action_edges = Actions
          /\ \A a \in DOMAIN tree[BackUpNode].action_edges :
                /\ tree'[BackUpNode].action_edges[a].observation_edges
                      = tree[BackUpNode].action_edges[a].observation_edges
                /\ tree'[BackUpNode].action_edges[a].o_weights
                      = tree[BackUpNode].action_edges[a].o_weights
          /\ tree'[BackUpNode].belief = tree[BackUpNode].belief
          /\ Len(tree') >= Len(tree)
          /\ \A k \in 1 .. Len(tree) : k # BackUpNode => tree'[k] = tree[k]
          /\ \A k \in Len(tree) + 1 .. Len(tree') :
                \E a \in Actions \ DOMAIN tree[BackUpNode].action_edges :
                    k \in ChildrenOf(tree', BackUpNode, a)]_vars

\* C31, witness: the reverse pass has backed up a node whose actions were all
\* expanded, with children, before the call; an AND-node it kept has expected
\* bounds other than those of its creation.
C31_Witness ==
    /\ last.op = "BackUp"
    /\ DOMAIN tree[last.node].action_edges = Actions
    /\ \A a \in Actions : DOMAIN GetChildren(tree, last.node, a) # {}
    /\ \E a \in Actions :
         tree[last.node].action_edges[a].avgUpper
            # UpperBoundEvaluation(tree[last.node].belief).U
    /\ Len(traversal) = 0

\* C31, witness: the way down has backed up a node that had no AND-node.
C31_WitnessFirst ==
    /\ last.op = "SampleBeliefs"
    /\ last.node # Root
    /\ DOMAIN tree[last.node].action_edges = Actions


\* T2 is the child of T for an observation of largest weighted gap under T's
\* best action
IsChosenChild(tr, T, T2, target) ==
    LET a == tr[T].best_action
    IN  /\ a \in DOMAIN tr[T].action_edges
        /\ \E o \in DOMAIN GetChildren(tr, T, a) :
             /\ GetChildren(tr, T, a)[o] = T2
             /\ \A p \in DOMAIN GetChildren(tr, T, a) :
                   ~ RLess(WeightedGap(tr, T, a, o, target),
                           WeightedGap(tr, T, a, p, target))

\* C32: SampleBeliefs at depth >= max_depth returns without a BackUp and
\* without appending; the traversal list of an iteration holds at most
\* max_depth_sim nodes, starts with the root, and every later element is the
\* child ChooseObservation chose at the element before it; every level of
\* SampleBeliefs is one deeper than the one before, so the recursion ends.
C32_TraversalDepthBound ==
    /\ [](/\ Len(traversal) <= args.max_depth_sim
          /\ (pc = "sample" => Len(traversal) = depth /\ depth <= args.max_depth_sim)
          /\ (traversal # <<>> => traversal[1] = Root)
          /\ \A k \in 1 .. Len(traversal) - 1 :
                IsChild(tree, traversal[k], traversal[k + 1])
          /\ (pc = "sample" /\ traversal # <<>>
                 => IsChild(tree, traversal[Len(traversal)], cur)))
    /\ [][(pc = "sample" /\ depth >= args.max_depth_sim)
             => (/\ pc' = "backup"
                 /\ traversal' = traversal
                 /\ tree' = tree
                 /\ fsc' = fsc)]_vars
    /\ [][(pc = "sample" /\ depth < args.max_depth_sim)
             => (/\ traversal' = Append(traversal, cur)
                 /\ pc' \in {"sample", "backup"}
                 /\ pc' = "sample"
                       => /\ depth' = depth + 1
                          /\ IsChosenChild(tree', cur, cur', args.target))]_vars

\* C32, witness: a traversal of max_depth_sim = 2 nodes has ended at the depth
\* bound, on a third node that is not on the list.
C32_Witness ==
    /\ last.op = "SampleDepth"
    /\ pc = "backup"
    /\ args.max_depth_sim = 2
    /\ Len(traversal) = 2
    /\ traversal[1] = Root
    /\ cur \notin {traversal[1], traversal[2]}


\* the rollout t from node nI stays within max_depth steps, and every node it
\* reads is nI or the target of an edge of the node read before it
RolloutWithin(f, nI, max_depth, t) ==
    /\ t.steps <= max_depth
    /\ Len(t.visited) = t.steps
    /\ \A k \in 1 .. Len(t.visited) :
          /\ t.visited[k] \in NodeIds(f)
          /\ k = 1 => t.visited[k] = nI
          /\ k > 1 => \E o \in DOMAIN GetEdges(f, t.visited[k - 1]) :
                         GetEdges(f, t.visited[k - 1])[o] = t.visited[k]

\* the rollout of the last GetNodeAlpha call (the call changes no edge and no
\* best action, and the rollout reads nothing else of the store)
LastRollout ==
    SimulateTrajectory(fsc, last.node, last.state, last.bounds[2],
                       last.bounds[1], cfg.sim)

\* C33: SimulateTrajectory ends after at most depth_max simulator steps on every
\* FSC graph, with cycles and self-loops, and every node index it reads is the
\* start index or an edge target read from the store.
C33_RolloutTerminates ==
    (last.op = "GetNodeAlpha" /\ last.simulated)
        => /\ last.steps = LastRollout.steps
           /\ RolloutWithin(fsc, last.node, last.bounds[2], LastRollout)

\* C33, witness: a rollout of depth_max = 2 steps that went round a self-loop.
C33_Witness ==
    /\ last.op = "GetNodeAlpha"
    /\ last.simulated
    /\ last.bounds[2] = 2
    /\ last.steps = 2
    /\ LastRollout.visited = <<last.node, last.node>>


\* what the sampling loop draws from belief b in the order of draws `order`: as
\* many states as min(max_belief_samples, |support(b)|), none of them twice,
\* each with its probability in b
DrawnOnce(b, max_belief_samples, drawn) ==
    /\ Len(drawn) = Min(max_belief_samples, Cardinality(Support(b)))
    /\ \A k, l \in 1 .. Len(drawn) : drawn[k].state = drawn[l].state => k = l
    /\ \A k \in 1 .. Len(drawn) :
          /\ drawn[k].state \in Support(b)
          /\ drawn[k].prob = b[drawn[k].state]

\* the mass of the entry next[o][n] of the AND-node an: the child's probability
\* times the weight it was divided by
EntryMass(tr, an, o, n) ==
    RMul(tr[an.observation_edges[o]].belief[n], an.o_weights[o])

\* the entries of the AND-node `an` of action a at belief b are those of the
\* drawn states D: each state of D gave its mass to the one entry its step leads
\* to, and there is no other entry
MassOf(tr, sim, b, a, an, D) ==
    /\ \A s \in D :
          /\ Step(sim, s, a).obs \in DOMAIN an.observation_edges
          /\ Step(sim, s, a).sNext
                \in Support(tr[an.observation_edges[Step(sim, s, a).obs]].belief)
    /\ \A o \in DOMAIN an.observation_edges :
          \A n \in Support(tr[an.observation_edges[o]].belief) :
             EntryMass(tr, an, o, n)
                = RSum(b, { s \in D : Step(sim, s, a).obs = o
                                      /\ Step(sim, s, a).sNext = n })

\* C34: BeliefUpdate samples without replacement: it calls Step
\* min(max_belief_samples, |support(b)|) times, at most once per state of b, and
\* the probability of every drawn state is added to exactly one entry
\* next[o][s'] of the children.
C34_SamplesWithoutReplacement ==
    \A T \in 1 .. Len(tree) :
        /\ \A order \in Orders(Support(tree[T].belief)) :
              DrawnOnce(tree[T].belief, cfg.max_belief_samples,
                        DrawLoop(tree[T].belief, cfg.max_belief_samples, 0,
                                 order, <<>>))
        /\ \A a \in DOMAIN tree[T].action_edges :
              \E D \in Draws(tree[T].belief, cfg.max_belief_samples) :
                 MassOf(tree, cfg.sim, tree[T].belief, a,
                        tree[T].action_edges[a], D)

\* C34, witness: an AND-node built from one state drawn of a belief of two, and
\* one built from two states whose steps lead to the same entry.
C34_Witness ==
    \/ /\ cfg.max_belief_samples = 1
       /\ \E T \in 1 .. Len(tree) : \E a \in DOMAIN tree[T].action_edges :
            /\ Cardinality(Support(tree[T].belief)) = 2
            /\ Cardinality(DOMAIN tree[T].action_edges[a].observation_edges) = 1
    \/ /\ cfg.max_belief_samples = 2
       /\ \E T \in 1 .. Len(tree) : \E a \in DOMAIN tree[T].action_edges :
            \E s, t \in Support(tree[T].belief) :
               /\ s # t
               /\ Step(cfg.sim, s, a).obs = Step(cfg.sim, t, a).obs
               /\ Step(cfg.sim, s, a).sNext = Step(cfg.sim, t, a).sNext
               /\ DOMAIN tree[T].action_edges[a].observation_edges # {}


\* the location of a CTP state
LocOf(state) == At(state, sfIdx("loc"))

\* C35: the goal is absorbing.  Step from a state whose location is the goal
\* returns, for every action, the same state, the reward 0 and done = true; no
\* step leaves the goal.
C35_GoalAbsorbing ==
    /\ []((last.op = "Step" /\ LocOf(last.state) = CTPGoal)
             => (last.sNext = last.state /\ last.reward = 0 /\ last.done))
    /\ [][(args.state # <<>> /\ LocOf(args.state) = CTPGoal)
             => args'.state = args.state]_vars

\* C35, witness: a move action was taken at the goal, towards a node an open
\* edge leads to.
C35_Witness ==
    /\ last.op = "Step"
    /\ LocOf(last.state) = CTPGoal
    /\ last.action \in {0, 1}
    /\ OpenEdge(last.state, CTPGoal, last.action)
    /\ last.done

\* the action is a move to a node other than the location that no open edge
\* leads to
InvalidMove(state, action) ==
    /\ ~ IsDecide(action)
    /\ action # LocOf(state)
    /\ ~ OpenEdge(state, LocOf(state), action)

\* C36: an invalid move.  From a location that is neither the goal nor the
\* special initial one, Step with a move to a node that is not adjacent or
\* whose stochastic edge is blocked returns the input state, the bad-action
\* reward and done = false.
C36_InvalidMove ==
    (/\ last.op = "Step"
     /\ LocOf(last.state) \notin {CTPGoal, Len(CTPNodes)}
     /\ InvalidMove(last.state, last.action))
        => (/\ last.sNext = last.state
            /\ last.reward = BadActionReward
            /\ ~ last.done)

\* C36, witness: a move along a blocked edge.
C36_Witness ==
    /\ last.op = "Step"
    /\ LocOf(last.state) \notin {CTPGoal, Len(CTPNodes)}
    /\ InvalidMove(last.state, last.action)
    /\ (IF last.action < LocOf(last.state) THEN <<last.action, LocOf(last.state)>>
        ELSE <<LocOf(last.state), last.action>>) \in CTPStochEdges

\* C36, witness: a move to a node no edge leads to.
C36_WitnessNoEdge ==
    /\ last.op = "Step"
    /\ LocOf(last.state) = CTPOrigin
    /\ last.action = 3
    /\ last.reward = BadActionReward

\* C37: Step never changes an edge status.  On every step the status factors of
\* the state stay as they are; the location changes only to the origin, from the
\* special initial location, or to the node of the action along an edge that is
\* there and not blocked.
C37_EdgeStatusKept ==
    [][args.state # <<>>
          => /\ \A e \in CTPStochEdges :
                   At(args'.state, sfIdx(edge2str(e)))
                      = At(args.state, sfIdx(edge2str(e)))
             /\ LocOf(args'.state) # LocOf(args.state)
                   => \/ /\ LocOf(args.state) = Len(CTPNodes)
                         /\ LocOf(args'.state) = CTPOrigin
                      \/ /\ LocOf(args'.state) = last'.action
                         /\ OpenEdge(args.state, LocOf(args.state),
                                     LocOf(args'.state))]_vars

\* C37, witness: three steps have gone from the special initial location to the
\* goal over an open stochastic edge, the other one being blocked.
C37_Witness ==
    /\ last.op = "Step"
    /\ LocOf(last.state) = 1
    /\ LocOf(last.sNext) = CTPGoal
    /\ At(last.sNext, sfIdx(edge2str(<<1, 2>>))) = 1
    /\ At(last.sNext, sfIdx(edge2str(<<0, 2>>))) = 0


\* C38: the index round trip.  For every state number sI below size(),
\* stateIndex(at(sI)) = sI; for every choice of one element per factor,
\* at(stateIndex(state)) = state; stateIndex maps the choices one to one onto
\* the numbers below size().
C38_IndexRoundTrip ==
    /\ last.op = "at" => stateIndex(args.factors, last.ret) = last.sI
    /\ last.op = "stateIndex"
          => /\ last.ret \in 0 .. calcSize(args.factors) - 1
             /\ StateAt(args.factors, last.ret) = last.state
    /\ pc = "ss"
          => /\ Cardinality(StatesOf(args.factors)) = calcSize(args.factors)
             /\ \A s, t \in StatesOf(args.factors) :
                   stateIndex(args.factors, s) = stateIndex(args.factors, t)
                      => s = t

\* C38, witness: at() of a state number whose elements are not the indices in
\* their factors, of which the first is not 0.
C38_Witness ==
    /\ last.op = "at"
    /\ args.factors = MixedFactors
    /\ last.sI = 4
    /\ last.ret["a"] = 0
    /\ last.ret["c"] = 2

\* C38, witness: stateIndex of the last state of the documented factors.
C38_WitnessIndex ==
    /\ last.op = "stateIndex"
    /\ args.factors = DocFactors
    /\ last.ret = 5

====
